---------------------------- MODULE Spec2Model ----------------------------
(***************************************************************************)
(* A model of n8n-nodes-ad-admin: the AdClient of helpers/ldap.ts (codec,  *)
(* connection manager with its one-shot reconnect-and-retry, directory     *)
(* operations), the user, group and OU operations of                       *)
(* ActiveDirectoryAdmin.node.ts, and its execute loop over a batch.        *)
(*                                                                         *)
(* Strings are sequences of one-character strings, so that escaping,       *)
(* validation, parseInt and String() are computed, not assumed.  The       *)
(* directory and the ldapts client are the environment: each request on    *)
(* the wire either reaches the directory (which applies or rejects it by   *)
(* its own state) or is hit by an injected fault.                          *)
(***************************************************************************)
EXTENDS Integers, Sequences, FiniteSets, TLC

VARIABLES
    config,     \* LdapConfig held by the AdClient: [isSecure, bindDn, password]
    dir,        \* the directory: DN -> entry (attribute name -> value)
    dir0,       \* history: the directory when the operation was invoked
    conn,       \* this.client: "bound" or "unbound"
    op,         \* the operation invoked on the client, with its parameters
    pc,         \* the await the operation is suspended at ("start", ..., "done")
    call,       \* the AdClient primitive call in progress (add/modify/search/del)
    locals,     \* values the operation keeps between awaits
    sent,       \* history: every request put on the wire by the operation
    result,     \* what the operation returned or threw
    faults,     \* history: number of faults injected so far
    cIn,        \* codec functions: the value or candidate drawn
    cOps,       \* codec functions: the functions applied so far
    cOut,       \* codec functions: what the functions applied returned
    items,      \* execute: the input items, each the operation it asks for
    continueOnFail, \* execute: the node's continue-on-failure parameter
    itemIndex,  \* execute: the loop variable
    returnData, \* execute: the records pushed so far
    exec,       \* execute: where it is ("bind", "loop", "catch", "finally", ...)
    raised,     \* execute: the exception leaving it, NoErr if none
    wire,       \* history: the events of the items dealt with, tagged by item
    orphans,    \* connections of replaced Client objects that are still open
    unbinds,    \* history: every AdClient.unbind call and what its close raised
    binds,      \* history: every bind of a Client object: by whom, as whom, outcome
    others      \* history: the changes other writers made to the directory

execVars == <<config, dir, dir0, conn, op, pc, call, locals, sent, result, faults>>
codecVars == <<cIn, cOps, cOut>>
batchVars == <<items, continueOnFail, itemIndex, returnData, exec, raised, wire>>
sessVars == <<orphans, unbinds, binds>>
raceVars == <<others>>
vars == <<config, dir, dir0, conn, op, pc, call, locals, sent, result, faults, cIn, cOps, cOut,
          items, continueOnFail, itemIndex, returnData, exec, raised, wire, orphans, unbinds,
          binds, others>>

-----------------------------------------------------------------------------
(* Bounds of the model *)

\* faults (transport faults, injected rejections, failed rebinds) per run
MaxFaults == 2

\* length of the operation sequences applied in the codec checks
MaxToggles == 2

-----------------------------------------------------------------------------
(* Strings, parseInt, String(), bit tests *)

\* an absent attribute value (JavaScript's undefined); no string of characters
Undefined == <<"undefined">>

NoError == ""

Digits == <<"0", "1", "2", "3", "4", "5", "6", "7", "8", "9">>

IsDigit(c) == \E i \in 1..10 : Digits[i] = c

DigitVal(c) == (CHOOSE i \in 1..10 : Digits[i] = c) - 1

\* \s of the JavaScript regular expressions
Whitespace == {" ", "\t", "\n"}

Str(s) == [i \in 1..Len(s) |-> s[i]]

RECURSIVE LeadingDigits(_)
LeadingDigits(s) ==
    IF s = << >> \/ ~IsDigit(Head(s)) THEN << >>
    ELSE <<Head(s)>> \o LeadingDigits(Tail(s))

RECURSIVE DigitsValue(_, _)
DigitsValue(s, acc) ==
    IF s = << >> THEN acc ELSE DigitsValue(Tail(s), acc * 10 + DigitVal(Head(s)))

RECURSIVE SkipWhitespace(_)
SkipWhitespace(s) ==
    IF s # << >> /\ Head(s) \in Whitespace THEN SkipWhitespace(Tail(s)) ELSE s

\* parseInt(x, 10): an absent value and a string with no leading
\* digits give NaN; otherwise an optional sign and the leading digits.
ParseInt(x) ==
    IF x = Undefined THEN [nan |-> TRUE, val |-> 0]
    ELSE LET t == SkipWhitespace(x)
             neg == t # << >> /\ Head(t) = "-"
             u == IF t # << >> /\ Head(t) \in {"-", "+"} THEN Tail(t) ELSE t
             d == LeadingDigits(u)
         IN IF d = << >> THEN [nan |-> TRUE, val |-> 0]
            ELSE [nan |-> FALSE,
                  val |-> IF neg THEN 0 - DigitsValue(d, 0) ELSE DigitsValue(d, 0)]

RECURSIVE NatToStr(_)
NatToStr(n) ==
    IF n < 10 THEN <<Digits[n + 1]>>
    ELSE NatToStr(n \div 10) \o <<Digits[(n % 10) + 1]>>

\* String(n)
ToStr(n) == IF n < 0 THEN <<"-">> \o NatToStr(0 - n) ELSE NatToStr(n)

\* n & b # 0, n & ~b, n | b for a single bit b and 0 <= n < 2^31
HasBit(n, b) == (n \div b) % 2 = 1
ClearBit(n, b) == IF HasBit(n, b) THEN n - b ELSE n
SetBit(n, b) == IF HasBit(n, b) THEN n ELSE n + b

ACCOUNTDISABLE == 2
DONT_EXPIRE_PASSWORD == 65536
NORMAL_ACCOUNT == 512
InitialUAC == 514
MaxSamLen == 20

-----------------------------------------------------------------------------
(* Attribute codec: escapeDN, validateSAMAccountName, validateUPN *)

DnSpecials == {",", "+", "\"", "<", ">", ";", "="}

RECURSIVE EscapeChars(_)
\* the eight global replaces: the backslash first, then , + " < > ; =
EscapeChars(s) ==
    IF s = << >> THEN << >>
    ELSE (IF Head(s) = "\\" \/ Head(s) \in DnSpecials
          THEN <<"\\", Head(s)>> ELSE <<Head(s)>>) \o EscapeChars(Tail(s))

EscapeLeadingHash(s) ==
    IF s # << >> /\ Head(s) = "#" THEN <<"\\">> \o s ELSE s

EscapeLeadingSpace(s) ==
    IF s # << >> /\ Head(s) = " " THEN <<"\\">> \o s ELSE s

EscapeTrailingSpace(s) ==
    IF s # << >> /\ s[Len(s)] = " "
    THEN SubSeq(s, 1, Len(s) - 1) \o <<"\\", " ">> ELSE s

escapeDN(s) ==
    EscapeTrailingSpace(EscapeLeadingSpace(EscapeLeadingHash(EscapeChars(Str(s)))))

\* variant: the vertical bar is missing from the character class
SamInvalidCharsNoBar ==
    Whitespace \cup {"\"", "/", "\\", "[", "]", ":", ";", "=", ",", "+", "*", "?", "<", ">"}

SamInvalidChars ==
    Whitespace \cup {"\"", "/", "\\", "[", "]", ":", ";", "|", "=", ",", "+",
                     "*", "?", "<", ">"}

validateSAMAccountName(sam) ==
    IF Len(sam) = 0 THEN [valid |-> FALSE, error |-> "sAMAccountName cannot be empty"]
    ELSE IF Len(sam) > MaxSamLen
         THEN [valid |-> FALSE, error |-> "sAMAccountName cannot exceed 20 characters"]
    ELSE IF \E i \in 1..Len(sam) : sam[i] \in SamInvalidChars
         THEN [valid |-> FALSE, error |-> "sAMAccountName contains invalid characters"]
    ELSE [valid |-> TRUE, error |-> NoError]

\* variant: the character class is [^\s], an @ may stand in a part
NoWsAtAllowsAt(s, a, b) == a <= b /\ \A k \in a..b : s[k] \notin Whitespace

\* [^\s@]+ over s[a..b]
NoWsAt(s, a, b) == a <= b /\ \A k \in a..b : s[k] \notin Whitespace /\ s[k] # "@"

\* /^[^\s@]+@[^\s@]+\.[^\s@]+$/
EmailRegexTest(s) ==
    \E i \in 1..Len(s) : \E j \in 1..Len(s) :
        /\ i < j
        /\ s[i] = "@"
        /\ s[j] = "."
        /\ NoWsAt(s, 1, i - 1)
        /\ NoWsAt(s, i + 1, j - 1)
        /\ NoWsAt(s, j + 1, Len(s))

validateUPN(upn) ==
    IF Len(upn) = 0 \/ ~(\E i \in 1..Len(upn) : upn[i] = "@")
    THEN [valid |-> FALSE, error |-> "UPN must be in format user@domain.tld"]
    ELSE IF ~EmailRegexTest(upn)
         THEN [valid |-> FALSE, error |-> "Invalid UPN format"]
    ELSE [valid |-> TRUE, error |-> NoError]

-----------------------------------------------------------------------------
(* Attribute codec: the groupType bitmask and the directory timestamps *)

MaxInt64 == <<"9", "2", "2", "3", "3", "7", "2", "0", "3", "6", "8", "5", "4", "7",
              "7", "5", "8", "0", "7">>

\* a 32-bit integer as its two 16-bit halves, so that bit 31 is a bit like
\* the others: hi and lo in 0..2^16 - 1
Half == 2 ^ 16

Int32(hi, lo) == [hi |-> hi, lo |-> lo]

GROUP_TYPE_GLOBAL == Int32(0, 2)
GROUP_TYPE_DOMAIN_LOCAL == Int32(0, 4)
GROUP_TYPE_UNIVERSAL == Int32(0, 8)
GROUP_TYPE_SECURITY_ENABLED == Int32(2 ^ 15, 0)

\* v | m and (v & m) # 0 for a mask m of one bit
Or32(v, m) ==
    Int32(IF m.hi # 0 THEN SetBit(v.hi, m.hi) ELSE v.hi,
          IF m.lo # 0 THEN SetBit(v.lo, m.lo) ELSE v.lo)

And32(v, m) ==
    \/ m.hi # 0 /\ HasBit(v.hi, m.hi)
    \/ m.lo # 0 /\ HasBit(v.lo, m.lo)

\* 2^32 - v
Neg32(v) ==
    Int32((Half - 1 - v.hi + (IF v.lo = 0 THEN 1 ELSE 0)) % Half, (Half - v.lo) % Half)

RECURSIVE HalvesToStr(_, _)
\* the decimal digits of hi * 2^16 + lo, by long division by ten
HalvesToStr(hi, lo) ==
    IF hi = 0 /\ lo < 10 THEN <<Digits[lo + 1]>>
    ELSE LET r == (hi % 10) * Half + lo
         IN HalvesToStr(hi \div 10, r \div 10) \o <<Digits[(r % 10) + 1]>>

\* String(v) of the signed 32-bit result of the bitwise operators
ToStr32(v) ==
    IF v.hi >= 2 ^ 15
    THEN LET m == Neg32(v)
         IN <<"-">> \o HalvesToStr(m.hi, m.lo)
    ELSE HalvesToStr(v.hi, v.lo)

RECURSIVE DigitsMod32(_, _)
\* the value of a digit string modulo 2^32
DigitsMod32(s, acc) ==
    IF s = << >> THEN acc
    ELSE LET l == acc.lo * 10 + DigitVal(Head(s))
         IN DigitsMod32(Tail(s), Int32((acc.hi * 10 + l \div Half) % Half, l % Half))

\* ToInt32(parseInt(x, 10)), the operand the bitwise operators see: NaN is 0,
\* and a value of up to fifteen digits is taken modulo 2^32
ParseInt32(x) ==
    IF x = Undefined THEN Int32(0, 0)
    ELSE LET t == SkipWhitespace(x)
             neg == t # << >> /\ Head(t) = "-"
             u == IF t # << >> /\ Head(t) \in {"-", "+"} THEN Tail(t) ELSE t
             v == DigitsMod32(LeadingDigits(u), Int32(0, 0))
         IN IF neg THEN Neg32(v) ELSE v

\* an option of createGroup that was not given
Absent == "absent"

\* const { groupType = 'security', scope = 'global' } = options
OptionOr(x, default) == IF x = Absent THEN default ELSE x

\* variant: the security flag is written one digit short, 0x8000000
GroupTypeSentShortFlag(groupType, scope) ==
    LET s == OptionOr(scope, "global")
        v0 == Int32(0, 0)
        v1 == IF s = "global" THEN Or32(v0, GROUP_TYPE_GLOBAL)
              ELSE IF s = "domainLocal" THEN Or32(v0, GROUP_TYPE_DOMAIN_LOCAL)
              ELSE IF s = "universal" THEN Or32(v0, GROUP_TYPE_UNIVERSAL)
              ELSE v0
        v2 == IF OptionOr(groupType, "security") = "security"
              THEN Or32(v1, Int32(2 ^ 11, 0)) ELSE v1
    IN ToStr32(v2)

\* createGroup: the groupType attribute of the entry it adds
GroupTypeSent(groupType, scope) ==
    LET s == OptionOr(scope, "global")
        v0 == Int32(0, 0)
        v1 == IF s = "global" THEN Or32(v0, GROUP_TYPE_GLOBAL)
              ELSE IF s = "domainLocal" THEN Or32(v0, GROUP_TYPE_DOMAIN_LOCAL)
              ELSE IF s = "universal" THEN Or32(v0, GROUP_TYPE_UNIVERSAL)
              ELSE v0
        v2 == IF OptionOr(groupType, "security") = "security"
              THEN Or32(v1, GROUP_TYPE_SECURITY_ENABLED) ELSE v1
    IN ToStr32(v2)

\* group.groupType?.toString() || '0'
OrZero(x) == IF x = Undefined \/ x = << >> THEN <<"0">> ELSE x

\* variant: the security flag is taken from the sign of the number read
GetGroupDecodeBySign(x) ==
    LET groupTypeValue == ParseInt32(OrZero(x))
    IN [groupType |-> IF Head(OrZero(x)) = "-" THEN "security" ELSE "distribution",
        scope |-> IF And32(groupTypeValue, GROUP_TYPE_GLOBAL) THEN "global"
                  ELSE IF And32(groupTypeValue, GROUP_TYPE_DOMAIN_LOCAL) THEN "domainLocal"
                  ELSE IF And32(groupTypeValue, GROUP_TYPE_UNIVERSAL) THEN "universal"
                  ELSE "unknown"]

\* getGroup: groupType and scope decoded from the attribute read
GetGroupDecode(x) ==
    LET groupTypeValue == ParseInt32(OrZero(x))
    IN [groupType |-> IF And32(groupTypeValue, GROUP_TYPE_SECURITY_ENABLED)
                      THEN "security" ELSE "distribution",
        scope |-> IF And32(groupTypeValue, GROUP_TYPE_GLOBAL) THEN "global"
                  ELSE IF And32(groupTypeValue, GROUP_TYPE_DOMAIN_LOCAL) THEN "domainLocal"
                  ELSE IF And32(groupTypeValue, GROUP_TYPE_UNIVERSAL) THEN "universal"
                  ELSE "unknown"]

\* listGroups: the same decoding, written out again in its map
ListGroupsDecode(x) ==
    LET groupTypeValue == ParseInt32(OrZero(x))
    IN [groupType |-> IF And32(groupTypeValue, GROUP_TYPE_SECURITY_ENABLED)
                      THEN "security" ELSE "distribution",
        scope |-> IF And32(groupTypeValue, GROUP_TYPE_GLOBAL) THEN "global"
                  ELSE IF And32(groupTypeValue, GROUP_TYPE_DOMAIN_LOCAL) THEN "domainLocal"
                  ELSE IF And32(groupTypeValue, GROUP_TYPE_UNIVERSAL) THEN "universal"
                  ELSE "unknown"]

\* the directory hands the 32 bits it stored back as a signed decimal or as
\* an unsigned one
Readings == {"signed", "unsigned"}

StoredAs(x, reading) ==
    LET v == ParseInt32(x)
    IN IF reading = "signed" THEN ToStr32(v) ELSE HalvesToStr(v.hi, v.lo)

\* JavaScript numbers: a natural number as its digits to the base 2^12,
\* lowest first, with no leading zero; the operations on them are exact, and
\* Round53 is the rounding of every arithmetic result to the 53 significant
\* bits of a double (to nearest, ties to even)
Limb == 2 ^ 12

RECURSIVE Norm(_)
Norm(a) == IF a # << >> /\ a[Len(a)] = 0 THEN Norm(SubSeq(a, 1, Len(a) - 1)) ELSE a

Rest(a) == IF a = << >> THEN << >> ELSE Tail(a)

Low(a) == IF a = << >> THEN 0 ELSE Head(a)

RECURSIVE AddCarry(_, _, _)
AddCarry(a, b, c) ==
    IF a = << >> /\ b = << >> THEN (IF c > 0 THEN <<c>> ELSE << >>)
    ELSE LET x == Low(a) + Low(b) + c
         IN <<x % Limb>> \o AddCarry(Rest(a), Rest(b), x \div Limb)

AddB(a, b) == AddCarry(a, b, 0)

RECURSIVE SubBorrow(_, _, _)
SubBorrow(a, b, c) ==
    IF a = << >> THEN << >>
    ELSE LET x == Low(a) - Low(b) - c
         IN <<x % Limb>> \o SubBorrow(Rest(a), Rest(b), IF x < 0 THEN 1 ELSE 0)

\* a - b for a >= b
SubB(a, b) == Norm(SubBorrow(a, b, 0))

RECURSIVE MulAdd(_, _, _)
\* a * k + c for small k and c
MulAdd(a, k, c) ==
    IF a = << >> THEN (IF c > 0 THEN <<c>> ELSE << >>)
    ELSE LET x == Head(a) * k + c
         IN <<x % Limb>> \o MulAdd(Tail(a), k, x \div Limb)

\* a small number
Small(k) == Norm(MulAdd(<<1>>, k, 0))

\* a * Limb^n and floor(a / Limb^n)
Shl(a, n) == IF a = << >> THEN << >> ELSE [i \in 1..n |-> 0] \o a

Shr(a, n) == IF Len(a) <= n THEN << >> ELSE SubSeq(a, n + 1, Len(a))

RECURSIVE LessFrom(_, _, _)
LessFrom(a, b, i) ==
    IF i = 0 THEN FALSE
    ELSE IF a[i] # b[i] THEN a[i] < b[i]
    ELSE LessFrom(a, b, i - 1)

\* a < b
LessB(a, b) == Len(a) < Len(b) \/ (Len(a) = Len(b) /\ LessFrom(a, b, Len(a)))

RECURSIVE DivFrom(_, _, _, _, _)
DivFrom(a, i, d, rem, q) ==
    IF i = 0 THEN [q |-> Norm(q), r |-> rem]
    ELSE LET t == rem * Limb + a[i]
         IN DivFrom(a, i - 1, d, t % d, <<t \div d>> \o q)

\* quotient and remainder of a by a small divisor d
DivSmall(a, d) == DivFrom(a, Len(a), d, 0, << >>)

RECURSIVE DigitsBits(_, _)
\* the value of a digit string
DigitsBits(s, acc) ==
    IF s = << >> THEN acc
    ELSE DigitsBits(Tail(s), MulAdd(acc, 10, DigitVal(Head(s))))

RECURSIVE BitsDigits(_)
\* the decimal digits of a
BitsDigits(a) ==
    LET d == DivSmall(a, 10)
    IN IF d.q = << >> THEN <<Digits[d.r + 1]>>
       ELSE BitsDigits(d.q) \o <<Digits[d.r + 1]>>

RECURSIVE BitLen(_)
BitLen(n) == IF n = 0 THEN 0 ELSE 1 + BitLen(n \div 2)

LimbBits == BitLen(Limb - 1)

\* the number of significant bits of a
Width(a) == IF a = << >> THEN 0 ELSE LimbBits * (Len(a) - 1) + BitLen(a[Len(a)])

\* bit p of a (bit 0 is the lowest), and whether a bit below p is set
BitAt(a, p) == (a[p \div LimbBits + 1] \div (2 ^ (p % LimbBits))) % 2

AnyBelow(a, p) ==
    \/ \E i \in 1..(p \div LimbBits) : a[i] # 0
    \/ a[p \div LimbBits + 1] % (2 ^ (p % LimbBits)) # 0

\* 2^p, and a with the bits below p cleared
PowerOfTwo(p) == [i \in 1..(p \div LimbBits) |-> 0] \o <<2 ^ (p % LimbBits)>>

ClearBelow(a, p) ==
    [i \in 1..Len(a) |->
        IF i <= p \div LimbBits THEN 0
        ELSE IF i = p \div LimbBits + 1
             THEN (a[i] \div (2 ^ (p % LimbBits))) * (2 ^ (p % LimbBits))
        ELSE a[i]]

\* a with the inexact flag sticky, rounded to 53 significant bits
RoundSticky(a, sticky) ==
    IF Width(a) <= 53 THEN a
    ELSE LET k == Width(a) - 53
             up == /\ BitAt(a, k - 1) = 1
                   /\ (sticky \/ BitAt(a, k) = 1 \/ AnyBelow(a, k - 1))
         IN IF up THEN AddB(ClearBelow(a, k), PowerOfTwo(k)) ELSE ClearBelow(a, k)

Round53(a) == RoundSticky(a, FALSE)

\* a number with a fraction: (IF neg THEN -1 ELSE 1) * m / Limb^FracLimbs,
\* the fraction twice as long as a double is
FracLimbs == (2 * 53) \div LimbBits

Num(neg, m) == [neg |-> neg, m |-> m]

\* x * 10000 for a non-negative integer x
Times10000(x) == Round53(MulAdd(x, 10000, 0))

\* x / 10000 for an integer x, as a number with a fraction
Over10000(x) ==
    LET d == DivSmall(Shl(x.m, FracLimbs), 10000)
    IN Num(x.neg, RoundSticky(d.q, d.r # 0))

\* a - y for an integer y
Minus(a, y) ==
    LET b == Shl(y, FracLimbs)
    IN IF a.neg THEN Num(TRUE, Round53(AddB(a.m, b)))
       ELSE IF LessB(a.m, b) THEN Num(TRUE, Round53(SubB(b, a.m)))
       ELSE Num(FALSE, Round53(SubB(a.m, b)))

\* the time value of new Date(a): the fraction is dropped
DateOf(a) ==
    LET t == Shr(a.m, FracLimbs)
    IN (IF a.neg /\ t # << >> THEN <<"-">> ELSE << >>) \o BitsDigits(t)

\* parseInt(timestamp, 10) of a string that starts with a number
ParseNumber(s) ==
    LET neg == s # << >> /\ Head(s) = "-"
        u == IF neg THEN Tail(s) ELSE s
    IN Num(neg, Round53(DigitsBits(LeadingDigits(u), << >>)))

IsNumber(s) == LeadingDigits(IF s # << >> /\ Head(s) = "-" THEN Tail(s) ELSE s) # << >>

Null == <<"null">>

\* new Date(NaN).toISOString() throws
InvalidTime == <<"RangeError">>

UnixEpochMs == <<"1", "1", "6", "4", "4", "4", "7", "3", "6", "0", "0", "0", "0", "0">>

UnixEpochTicks == UnixEpochMs \o <<"0", "0", "0", "0">>

\* variant: "0" is not taken as unset
convertADTimestampOfZero(timestamp) ==
    IF timestamp = Undefined \/ timestamp = << >> \/ timestamp = MaxInt64
    THEN Null
    ELSE IF ~IsNumber(timestamp) THEN InvalidTime
    ELSE LET winTime == ParseNumber(timestamp)
             unixTime == Minus(Over10000(winTime), DigitsBits(UnixEpochMs, << >>))
         IN DateOf(unixTime)

\* convertADTimestamp of getUserActivity: null, or the time value (milliseconds
\* since the Unix epoch, in decimal) of the Date whose ISO text it returns.
\* The attribute is a 64-bit integer in decimal, so the Date is in range.
convertADTimestamp(timestamp) ==
    IF timestamp = Undefined \/ timestamp = << >> \/ timestamp = <<"0">>
       \/ timestamp = MaxInt64
    THEN Null
    ELSE IF ~IsNumber(timestamp) THEN InvalidTime
    ELSE LET winTime == ParseNumber(timestamp)
             unixTime == Minus(Over10000(winTime), DigitsBits(UnixEpochMs, << >>))
         IN DateOf(unixTime)

\* checkPasswordExpiry: now = Date.now() * 10000 + 116444736000000000, in
\* decimal; String(now) may print fewer digits, and parseInt reads the same
\* double back from either
NowTicks(ms) ==
    BitsDigits(Round53(AddB(Times10000(DigitsBits(ms, << >>)),
                            DigitsBits(UnixEpochTicks, << >>))))

-----------------------------------------------------------------------------
\* checkPasswordExpiry, the expiry arithmetic in doubles: integers as sign and
\* magnitude, every result rounded to 53 significant bits

\* a + b
Plus(a, b) ==
    IF a.neg = b.neg THEN Num(a.neg, Round53(AddB(a.m, b.m)))
    ELSE IF a.m = b.m THEN Num(FALSE, << >>)
    ELSE IF LessB(a.m, b.m) THEN Num(b.neg, Round53(SubB(b.m, a.m)))
    ELSE Num(a.neg, Round53(SubB(a.m, b.m)))

Negated(a) == IF a.m = << >> THEN a ELSE Num(~a.neg, a.m)

\* a < b
LessNum(a, b) ==
    IF a.neg # b.neg THEN a.neg
    ELSE IF a.neg THEN LessB(b.m, a.m) ELSE LessB(a.m, b.m)

\* 10000 * 1000 * 60 * 60 * 24, as the factors the division is made by
TicksPerDayFactors == <<10000, 10000, 8640>>

\* Math.floor(x / (10000 * 1000 * 60 * 60 * 24)) in decimal: the quotient
\* rounded to a double, then the largest integer not above it
FloorOverDay(x) ==
    LET d1 == DivSmall(Shl(x.m, FracLimbs), TicksPerDayFactors[1])
        d2 == DivSmall(d1.q, TicksPerDayFactors[2])
        d3 == DivSmall(d2.q, TicksPerDayFactors[3])
        quotient == RoundSticky(d3.q, d1.r # 0 \/ d2.r # 0 \/ d3.r # 0)
        whole == Shr(quotient, FracLimbs)
        fraction == \E i \in 1..FracLimbs : i <= Len(quotient) /\ quotient[i] # 0
    IN IF ~x.neg THEN BitsDigits(whole)
       ELSE IF fraction THEN <<"-">> \o BitsDigits(AddB(whole, Small(1)))
       ELSE IF whole = << >> THEN <<"0">>
       ELSE <<"-">> \o BitsDigits(whole)

\* Date.now() * 10000 + 116444736000000000 as a number
NowNumber(ms) ==
    Num(FALSE, Round53(AddB(Times10000(DigitsBits(ms, << >>)),
                            DigitsBits(UnixEpochTicks, << >>))))

\* variant: the sign of maxPwdAge is kept
MaxAgeSigned(maxPwdAge) == ParseNumber(maxPwdAge)

\* Math.abs(parseInt(maxPwdAge, 10))
MaxAge(maxPwdAge) == Num(FALSE, ParseNumber(maxPwdAge).m)

\* the numbers of the result when a policy applies: expired, and
\* expired ? 0 : daysUntilExpiry, in decimal
ExpiryNumbers(pwdLastSet, maxPwdAge, ms) ==
    LET pwdLastSetTime == ParseNumber(IF pwdLastSet = Undefined \/ pwdLastSet = << >>
                                      THEN <<"0">> ELSE pwdLastSet)
        maxAge == MaxAge(maxPwdAge)
        expiryTime == Plus(pwdLastSetTime, maxAge)
        now == NowNumber(ms)
        daysUntilExpiry == FloorOverDay(Plus(expiryTime, Negated(now)))
        expired == LessNum(expiryTime, now)
    IN [expired |-> expired,
        daysUntilExpiry |-> IF expired THEN <<"0">> ELSE daysUntilExpiry]

-----------------------------------------------------------------------------

(* Distinguished names *)

IsSuffix(t, s) ==
    Len(t) <= Len(s) /\ SubSeq(s, Len(s) - Len(t) + 1, Len(s)) = t

IsPrefix(t, s) == Len(t) <= Len(s) /\ SubSeq(s, 1, Len(t)) = t

RECURSIVE Split(_, _)
\* s.split(sep) for a one-character separator
Split(s, sep) ==
    IF \E i \in 1..Len(s) : s[i] = sep
    THEN LET i == CHOOSE k \in 1..Len(s) :
                      s[k] = sep /\ \A m \in 1..(k - 1) : s[m] # sep
         IN <<SubSeq(s, 1, i - 1)>> \o Split(SubSeq(s, i + 1, Len(s)), sep)
    ELSE <<s>>

RECURSIVE Join(_, _)
Join(parts, sep) ==
    IF parts = << >> THEN << >>
    ELSE IF Len(parts) = 1 THEN parts[1]
    ELSE parts[1] \o <<sep>> \o Join(Tail(parts), sep)

RECURSIVE TrimEnd(_)
TrimEnd(s) ==
    IF s # << >> /\ s[Len(s)] \in Whitespace THEN TrimEnd(SubSeq(s, 1, Len(s) - 1)) ELSE s

Trim(s) == TrimEnd(SkipWhitespace(s))

UpperChar(c) == IF c = "d" THEN "D" ELSE IF c = "c" THEN "C" ELSE c

ToUpperCase(s) == [i \in 1..Len(s) |-> UpperChar(s[i])]

RECURSIVE SelectPartsUntrimmed(_)
\* variant: the parts are tested as they stand
SelectPartsUntrimmed(parts) ==
    IF parts = << >> THEN << >>
    ELSE (IF IsPrefix(<<"D", "C", "=">>, ToUpperCase(Head(parts)))
          THEN <<Head(parts)>> ELSE << >>) \o SelectPartsUntrimmed(Tail(parts))

RECURSIVE SelectParts(_)
\* filter(part => part.trim().toUpperCase().startsWith('DC='))
SelectParts(parts) ==
    IF parts = << >> THEN << >>
    ELSE (IF IsPrefix(<<"D", "C", "=">>, ToUpperCase(Trim(Head(parts))))
          THEN <<Head(parts)>> ELSE << >>) \o SelectParts(Tail(parts))

DomainDnOf(baseDn) == Join(SelectParts(Split(baseDn, ",")), ",")

\* the directory tree of the model
DomainDn == <<"D", "C", "=", "c">>
BaseDn == <<"O", "U", "=", "u", ",">> \o DomainDn
UserSam == <<"j", "r">>
UserDn == <<"C", "N", "=", "j", "r", ",">> \o BaseDn
GroupDn == <<"C", "N", "=", "g", ",">> \o BaseDn
OuDn == <<"O", "U", "=", "o", ",">> \o BaseDn

\* `CN=${escapeDN(cn)},${parentOuDn}`
UserDnFor(cn, parentOuDn) == <<"C", "N", "=">> \o escapeDN(cn) \o <<",">> \o parentOuDn

-----------------------------------------------------------------------------
(* The directory service behind the ldapts client (environment) *)

Attr(e, a) == IF a \in DOMAIN e THEN e[a] ELSE Undefined

Exists(d, dn) == dn \in DOMAIN d

HasChildren(d, dn) ==
    \E x \in DOMAIN d : x # dn /\ IsSuffix(<<",">> \o dn, x)

\* an Error: its message as a sequence of words, and the DN or identifier it names
ErrAbout(kind, msg, about) == [kind |-> kind, msg |-> msg, about |-> about]

Err(kind, msg) == ErrAbout(kind, msg, << >>)

NoSuchObject == Err("rejection", <<"No", "such", "object">>)
EntryExists == Err("rejection", <<"Entry", "already", "exists">>)
NotAllowedOnNonLeaf == Err("rejection", <<"Not", "allowed", "on", "non-leaf">>)

\* errors the environment may raise on any request, whatever the directory holds
InjectedErrors ==
    { [err |-> Err("transport", <<"Connection", "closed">>), applied |-> FALSE],
      [err |-> Err("transport", <<"Request", "timeout">>), applied |-> TRUE],
      [err |-> Err("rejection", <<"Insufficient", "access", "rights">>), applied |-> FALSE],
      [err |-> Err("rejection", <<"Constraint", "violation", "account", "closed">>),
       applied |-> FALSE] }

LowerChar(c) ==
    CASE c = "C" -> "c" [] c = "N" -> "n" [] c = "O" -> "o" [] c = "U" -> "u"
      [] c = "D" -> "d" [] c = "J" -> "j" [] c = "R" -> "r" [] c = "G" -> "g"
      [] OTHER -> c

\* s.toLowerCase()
ToLowerCase(s) == [i \in 1..Len(s) |-> LowerChar(s[i])]

\* the attributes that hold a list of DNs; every other attribute holds one string
MultiValued == {"member", "memberOf"}

\* the values of a multi-valued attribute of an entry, none when it is absent
Values(e, a) == IF a \in DOMAIN e THEN e[a] ELSE << >>

\* the directory matches DN values without regard to case
HasValue(e, a, v) ==
    \E i \in 1..Len(Values(e, a)) : ToLowerCase(Values(e, a)[i]) = ToLowerCase(v)

RECURSIVE WithoutValue(_, _)
WithoutValue(vs, v) ==
    IF vs = << >> THEN << >>
    ELSE (IF ToLowerCase(Head(vs)) = ToLowerCase(v) THEN << >> ELSE <<Head(vs)>>)
         \o WithoutValue(Tail(vs), v)

Without(e, a) == [x \in (DOMAIN e) \ {a} |-> e[x]]

\* one change applied to one entry: replace sets the value; add and delete of
\* a multi-valued attribute add and remove one value; delete of a single-valued
\* attribute removes it
ApplyChange(e, c) ==
    IF c.type \in MultiValued
    THEN CASE c.operation = "add" -> (c.type :> Append(Values(e, c.type), c.value)) @@ e
           [] c.operation = "delete" ->
                 IF WithoutValue(Values(e, c.type), c.value) = << >>
                 THEN Without(e, c.type)
                 ELSE (c.type :> WithoutValue(Values(e, c.type), c.value)) @@ e
           [] OTHER -> (c.type :> <<c.value>>) @@ e
    ELSE IF c.operation = "delete" THEN Without(e, c.type)
    ELSE (c.type :> c.value) @@ e

AttributeOrValueExists == Err("rejection", <<"Attribute", "or", "value", "exists">>)
NoSuchAttribute == Err("rejection", <<"No", "such", "attribute">>)

\* the directory's objection to one change of a modify request, NoErr if none
ChangeError(e, c) ==
    IF c.operation = "add" /\ c.type \in MultiValued /\ HasValue(e, c.type, c.value)
    THEN AttributeOrValueExists
    ELSE IF c.operation = "add" /\ c.type \notin MultiValued /\ c.type \in DOMAIN e
         THEN AttributeOrValueExists
    ELSE IF c.operation = "delete" /\ c.type \in MultiValued
              /\ ~HasValue(e, c.type, c.value)
         THEN NoSuchAttribute
    ELSE IF c.operation = "delete" /\ c.type \notin MultiValued /\ c.type \notin DOMAIN e
         THEN NoSuchAttribute
    ELSE Err("none", << >>)

RECURSIVE ChangesError(_, _)
\* the first objection to the changes of one modify request, taken in order
ChangesError(e, changes) ==
    IF changes = << >> THEN Err("none", << >>)
    ELSE IF ChangeError(e, Head(changes)).kind # "none" THEN ChangeError(e, Head(changes))
    ELSE ChangesError(ApplyChange(e, Head(changes)), Tail(changes))

RECURSIVE ApplyChanges(_, _)
\* the changes of one modify request, applied to one entry
ApplyChanges(e, changes) ==
    IF changes = << >> THEN e
    ELSE ApplyChanges(ApplyChange(e, Head(changes)), Tail(changes))

Restrict(e, attributes) == [a \in (DOMAIN e) \cap attributes |-> e[a]]

Matches(d, dn, req) ==
    /\ IsSuffix(req.dn, dn)
    /\ \E i \in 1..Len(Attr(d[dn], "objectClass")) :
           Attr(d[dn], "objectClass")[i] = req.filter.objectClass
    /\ Attr(d[dn], "sAMAccountName") = req.filter.sam

\* the entries a search returns, each as [dn, attrs]
SearchEntries(d, req) ==
    IF req.scope = "base"
    THEN IF Exists(d, req.dn)
         THEN <<[dn |-> req.dn, attrs |-> Restrict(d[req.dn], req.attributes)]>>
         ELSE << >>
    ELSE LET hits == {dn \in DOMAIN d : Matches(d, dn, req)}
         IN IF hits = {} THEN << >>
            ELSE LET dn == CHOOSE x \in hits : TRUE
                 IN <<[dn |-> dn, attrs |-> Restrict(d[dn], req.attributes)]>>

\* a value against one comparison of a listing filter: (field=value),
\* (field=value*), (field=*value), (field=*value*)
TextMatches(v, type, value) ==
    CASE type = "startswith" -> IsPrefix(value, v)
      [] type = "endswith" -> IsSuffix(value, v)
      [] type = "contains" ->
            \E i \in 1..(Len(v) + 1) :
                i + Len(value) - 1 <= Len(v) /\ SubSeq(v, i, i + Len(value) - 1) = value
      [] OTHER -> v = value

\* an entry against a listing filter: the object class, and one of the
\* comparisons when there are any
MatchesList(d, dn, req) ==
    /\ IsSuffix(req.dn, dn)
    /\ \E i \in 1..Len(Attr(d[dn], "objectClass")) :
           Attr(d[dn], "objectClass")[i] = req.filter.objectClass
    /\ \/ req.filter.any = << >>
       \/ \E i \in 1..Len(req.filter.any) :
              /\ Attr(d[dn], req.filter.any[i].field) # Undefined
              /\ TextMatches(Attr(d[dn], req.filter.any[i].field),
                             req.filter.any[i].type, req.filter.any[i].value)

RECURSIVE EntriesOf(_, _, _)
\* the entries of a set of DNs, in the order the directory sends them
EntriesOf(d, dns, attributes) ==
    IF dns = {} THEN << >>
    ELSE LET dn == CHOOSE x \in dns : TRUE
         IN <<[dn |-> dn,
               attrs |-> IF "*" \in attributes THEN d[dn] ELSE Restrict(d[dn], attributes)]>>
            \o EntriesOf(d, dns \ {dn}, attributes)

\* the size limit of a search request: 0 (no limit) unless one was sent
SizeLimitOf(req) == IF "sizeLimit" \in DOMAIN req THEN req.sizeLimit ELSE 0

\* the results a listing search can bring: every match, or, under a size
\* limit that the matches exceed, as many of them as the limit allows (the
\* library hands them over although the directory ends the search with
\* sizeLimitExceeded)
Listed(d, req) ==
    LET hits == {dn \in DOMAIN d : MatchesList(d, dn, req)}
        limit == SizeLimitOf(req)
    IN IF limit > 0 /\ Cardinality(hits) > limit
       THEN {EntriesOf(d, some, req.attributes) :
                 some \in {s \in SUBSET hits : Cardinality(s) = limit}}
       ELSE {EntriesOf(d, hits, req.attributes)}

IsListing(req) == req.scope = "sub" /\ "any" \in DOMAIN req.filter

NoResp == [searchEntries |-> << >>]

Reply(ok, d, resp, err) == [ok |-> ok, dir |-> d, resp |-> resp, err |-> err]

NoErr == Err("none", << >>)

\* what the directory does with a request that reaches it
Serve(d, req) ==
    CASE req.kind = "add" ->
            IF Exists(d, req.dn) THEN {Reply(FALSE, d, NoResp, EntryExists)}
            ELSE {Reply(TRUE, (req.dn :> req.entry) @@ d, NoResp, NoErr)}
      [] req.kind = "modify" ->
            IF ~Exists(d, req.dn) THEN {Reply(FALSE, d, NoResp, NoSuchObject)}
            ELSE IF ChangesError(d[req.dn], req.changes).kind # "none"
                 THEN {Reply(FALSE, d, NoResp, ChangesError(d[req.dn], req.changes))}
            ELSE {Reply(TRUE, [d EXCEPT ![req.dn] = ApplyChanges(@, req.changes)],
                        NoResp, NoErr)}
      [] req.kind = "del" ->
            IF ~Exists(d, req.dn) THEN {Reply(FALSE, d, NoResp, NoSuchObject)}
            ELSE IF HasChildren(d, req.dn)
                 THEN {Reply(FALSE, d, NoResp, NotAllowedOnNonLeaf)}
            ELSE {Reply(TRUE, [x \in (DOMAIN d) \ {req.dn} |-> d[x]], NoResp, NoErr)}
      [] req.kind = "search" /\ IsListing(req) ->
            {Reply(TRUE, d, [searchEntries |-> es], NoErr) : es \in Listed(d, req)}
      [] req.kind = "search" /\ ~IsListing(req) ->
            {Reply(TRUE, d, [searchEntries |-> SearchEntries(d, req)], NoErr)}
            \cup (IF req.scope = "base" /\ ~Exists(d, req.dn)
                  THEN {Reply(FALSE, d, NoResp, NoSuchObject)} ELSE {})

Served(r) == [ok |-> r.ok, dir |-> r.dir, resp |-> r.resp, err |-> r.err, fault |-> 0]

Faulted(d, e) == [ok |-> FALSE, dir |-> d, resp |-> NoResp, err |-> e, fault |-> 1]

\* every outcome of one attempt on the wire: the directory's own answer, or,
\* while the fault budget lasts, an injected error; a transport fault may strike
\* before the request reached the directory or after the directory applied it
Outcomes(d, req, budget) ==
    {Served(r) : r \in Serve(d, req)}
    \cup (IF budget > 0
          THEN {Faulted(IF i.applied THEN r.dir ELSE d, i.err) :
                    i \in InjectedErrors, r \in Serve(d, req)}
          ELSE {})

-----------------------------------------------------------------------------
\* the directory's answer to a request on a session that completed no bind
Unauthenticated ==
    Err("rejection", <<"Operations", "error", "a", "successful", "bind", "must", "be",
                       "completed">>)

\* the outcomes of one attempt on the client's current session: a client whose
\* rebind failed connects again on its next request and sends it without a
\* bind; the directory then serves the request anonymously or refuses it
OutcomesOn(c, d, req, budget) ==
    Outcomes(d, req, budget)
    \cup (IF c = "bound" THEN {}
          ELSE {Served(Reply(FALSE, d, NoResp, Unauthenticated))})

-----------------------------------------------------------------------------
(* Requests built by the client *)

NoReq == [kind |-> "none"]

AddReq(dn, entry) == [kind |-> "add", dn |-> dn, entry |-> entry]

ModifyReq(dn, changes) == [kind |-> "modify", dn |-> dn, changes |-> changes]

DelReq(dn) == [kind |-> "del", dn |-> dn]

NoFilter == [objectClass |-> "", sam |-> << >>]

BaseSearch(dn, attributes) ==
    [kind |-> "search", dn |-> dn, scope |-> "base", filter |-> NoFilter,
     attributes |-> attributes]

\* scope 'sub', filter (&(objectClass=user)(sAMAccountName=<sam>))
UserSearch(base, sam, attributes) ==
    [kind |-> "search", dn |-> base, scope |-> "sub",
     filter |-> [objectClass |-> "user", sam |-> sam], attributes |-> attributes]

\* new Change({operation: 'replace', modification: new Attribute({type, values: [v]})})
Replace(type, value) == [operation |-> "replace", type |-> type, value |-> value]

\* new Change({operation: 'add', modification: new Attribute({type, values: [v]})})
AddValue(type, value) == [operation |-> "add", type |-> type, value |-> value]

\* new Change({operation: 'delete', modification: new Attribute({type, values: [v]})})
DeleteValue(type, value) == [operation |-> "delete", type |-> type, value |-> value]

RECURSIVE Utf16le(_)
\* Buffer.from(s, 'utf16le') for characters below U+0100: the byte, then a zero
Utf16le(s) ==
    IF s = << >> THEN << >> ELSE <<Head(s), "NUL">> \o Utf16le(Tail(s))

\* the quoted UTF-16LE encoding written to unicodePwd
EncodePassword(newPassword) == Utf16le(<<"\"">> \o newPassword \o <<"\"">>)

-----------------------------------------------------------------------------
(* Connection manager: the retry wrapper of add, modify, search, del *)

MsgIncludes(msg, word) == \E i \in 1..Len(msg) : msg[i] = word

\* error.message?.includes('closed') || error.message?.includes('timeout')
IsTransportSignal(err) ==
    MsgIncludes(err.msg, "closed") \/ MsgIncludes(err.msg, "timeout")

\* variant: the first failure is rethrown whatever it is
OnFirstFailureRethrows(err) == "throw"

\* the catch block of a first attempt: reconnect and retry, or rethrow
OnFirstFailure(err) == IF IsTransportSignal(err) THEN "reconnect" ELSE "throw"

\* variant: the retry sits in the same try block as the first attempt
OnRetryFailureRetriesAgain(err) == OnFirstFailure(err)

\* the retry is awaited inside the catch block, outside any try: it throws
OnRetryFailure(err) == "throw"

\* the error a failed rebind raises
BindErrors ==
    { Err("bind", <<"Invalid", "credentials">>),
      Err("bind", <<"Connection", "timeout">>) }

-----------------------------------------------------------------------------
(* Directory operations client: each operation as the steps between awaits *)

Pending == [status |-> "pending", json |-> [success |-> FALSE], err |-> NoErr]

\* suspend at the next AdClient primitive call
Goto(p, req, l) == [pc |-> p, req |-> req, locals |-> l, result |-> Pending]

Return(json, l) ==
    [pc |-> "done", req |-> NoReq, locals |-> l,
     result |-> [status |-> "ok", json |-> json, err |-> NoErr]]

Throw(err, l) ==
    [pc |-> "done", req |-> NoReq, locals |-> l,
     result |-> [status |-> "error", json |-> [success |-> FALSE], err |-> err]]

NoLocals == [dn |-> << >>, pwdLastSet |-> Undefined]

PolicyError == Err("policy", <<"Password", "operations", "require", "LDAPS">>)

\* AdClient.setPassword
SetPassword(cfg, dn, newPassword, next, l) ==
    IF cfg.isSecure = FALSE THEN Throw(PolicyError, l)
    ELSE Goto(next, ModifyReq(dn, <<Replace("unicodePwd", EncodePassword(newPassword))>>), l)

ForceChange(dn, next, l) ==
    Goto(next, ModifyReq(dn, <<Replace("pwdLastSet", <<"0">>)>>), l)

\* parseInt(searchEntries[0].userAccountControl, 10) || 512
CurrentUAC(raw) ==
    LET p == ParseInt(raw) IN IF p.nan \/ p.val = 0 THEN NORMAL_ACCOUNT ELSE p.val

\* currentUAC & ~0x0002
EnabledUAC(raw) == ClearBit(CurrentUAC(raw), ACCOUNTDISABLE)

\* variant: the flag is added rather than or-ed in
DisabledUACAdds(raw) == CurrentUAC(raw) + ACCOUNTDISABLE

\* currentUAC | 0x0002
DisabledUAC(raw) == SetBit(CurrentUAC(raw), ACCOUNTDISABLE)

\* variant: the message does not name the user
UserNotFoundUnnamed(about) == Err("notfound", <<"User", "not", "found">>)

UserNotFound(about) == ErrAbout("notfound", <<"User", "not", "found">>, about)

\* AdClient.enableUser / disableUser: the read
ToggleUserRead(dn, next, l) == Goto(next, BaseSearch(dn, {"userAccountControl"}), l)

\* AdClient.enableUser: after the read, the single modify
EnableUserWrite(dn, resp, next, l) ==
    IF resp.searchEntries = << >> THEN Throw(UserNotFound(dn), l)
    ELSE LET newUAC == EnabledUAC(Attr(resp.searchEntries[1].attrs, "userAccountControl"))
         IN Goto(next, ModifyReq(dn, <<Replace("userAccountControl", ToStr(newUAC))>>), l)

\* AdClient.disableUser: after the read, the single modify
DisableUserWrite(dn, resp, next, l) ==
    IF resp.searchEntries = << >> THEN Throw(UserNotFound(dn), l)
    ELSE LET newUAC == DisabledUAC(Attr(resp.searchEntries[1].attrs, "userAccountControl"))
         IN Goto(next, ModifyReq(dn, <<Replace("userAccountControl", ToStr(newUAC))>>), l)

(* createUser of the node *)

CreateUserDn(o) == UserDnFor(o.cn, o.parentOuDn)

RECURSIVE SplitWs(_, _)
\* s.split(/\s+/): cur is the part being read
SplitWs(s, cur) ==
    IF s = << >> THEN <<cur>>
    ELSE IF Head(s) \in Whitespace
         THEN <<cur>> \o SplitWs(SkipWhitespace(s), << >>)
    ELSE SplitWs(Tail(s), Append(cur, Head(s)))

\* nameParts[0] || cn
GivenNameOf(cn) ==
    LET nameParts == SplitWs(Trim(cn), << >>)
    IN IF nameParts[1] = << >> THEN cn ELSE nameParts[1]

\* nameParts.length > 1 ? nameParts[nameParts.length - 1] : cn
SnOf(cn) ==
    LET nameParts == SplitWs(Trim(cn), << >>)
    IN IF Len(nameParts) > 1 THEN nameParts[Len(nameParts)] ELSE cn

CreateUserEntry(o) ==
    [objectClass |-> <<"top", "person", "organizationalPerson", "user">>,
     cn |-> o.cn,
     sAMAccountName |-> o.sam,
     userPrincipalName |-> o.upn,
     sn |-> SnOf(o.cn),
     givenName |-> GivenNameOf(o.cn),
     displayName |-> o.cn,
     userAccountControl |-> ToStr(InitialUAC)]

ValidationError(text) == Err("validation", <<text>>)

\* variant: the userPrincipalName is not validated
CreateUserStartSkipsUPN(cfg, o, l) ==
    IF ~validateSAMAccountName(o.sam).valid
    THEN Throw(ValidationError(validateSAMAccountName(o.sam).error), l)
    ELSE Goto("create.add", AddReq(CreateUserDn(o), CreateUserEntry(o)), l)

CreateUserStart(cfg, o, l) ==
    IF ~validateSAMAccountName(o.sam).valid
    THEN Throw(ValidationError(validateSAMAccountName(o.sam).error), l)
    ELSE IF ~validateUPN(o.upn).valid
         THEN Throw(ValidationError(validateUPN(o.upn).error), l)
    ELSE Goto("create.add", AddReq(CreateUserDn(o), CreateUserEntry(o)), l)

CreateUserEnvelope(o) ==
    [success |-> TRUE, operation |-> "create", dn |-> CreateUserDn(o),
     sAMAccountName |-> o.sam, userPrincipalName |-> o.upn,
     enabled |-> o.enableImmediately, mustChangePassword |-> o.pwdMustChange]

CreateUserEnable(o, l) ==
    IF o.enableImmediately THEN ToggleUserRead(CreateUserDn(o), "create.enable.read", l)
    ELSE Return(CreateUserEnvelope(o), l)

\* variant: pwdMustChange is ignored
CreateUserAfterPasswordSkipsForce(o, l) == CreateUserEnable(o, l)

CreateUserAfterPassword(o, l) ==
    IF o.pwdMustChange THEN ForceChange(CreateUserDn(o), "create.forceChange", l)
    ELSE CreateUserEnable(o, l)

CreateUserResume(cfg, o, p, l, resp) ==
    CASE p = "create.add" ->
            SetPassword(cfg, CreateUserDn(o), o.password, "create.setPassword", l)
      [] p = "create.setPassword" -> CreateUserAfterPassword(o, l)
      [] p = "create.forceChange" -> CreateUserEnable(o, l)
      [] p = "create.enable.read" ->
            EnableUserWrite(CreateUserDn(o), resp, "create.enable.write", l)
      [] p = "create.enable.write" -> Return(CreateUserEnvelope(o), l)

(* enableUser, disableUser, resetPassword of the node *)

EnableResume(o, p, l, resp) ==
    CASE p = "enable.read" -> EnableUserWrite(o.dn, resp, "enable.write", l)
      [] p = "enable.write" ->
            Return([success |-> TRUE, operation |-> "enable", dn |-> o.dn,
                    enabled |-> TRUE], l)

DisableResume(o, p, l, resp) ==
    CASE p = "disable.read" -> DisableUserWrite(o.dn, resp, "disable.write", l)
      [] p = "disable.write" ->
            Return([success |-> TRUE, operation |-> "disable", dn |-> o.dn,
                    disabled |-> TRUE], l)

ResetPasswordEnvelope(o) ==
    [success |-> TRUE, operation |-> "resetPassword", dn |-> o.dn,
     passwordReset |-> TRUE, mustChangePassword |-> o.forceChange]

ResetPasswordResume(o, p, l, resp) ==
    CASE p = "reset.setPassword" ->
            IF o.forceChange THEN ForceChange(o.dn, "reset.forceChange", l)
            ELSE Return(ResetPasswordEnvelope(o), l)
      [] p = "reset.forceChange" -> Return(ResetPasswordEnvelope(o), l)

(* unlockUserAccount *)

\* lockoutTime && lockoutTime !== '0'
\* variant: any lockoutTime that is present counts as locked
IsLockedWhenPresent(lockoutTime) == lockoutTime # Undefined

IsLocked(lockoutTime) ==
    lockoutTime # Undefined /\ lockoutTime # << >> /\ lockoutTime # <<"0">>

UnlockEnvelope(o, res) ==
    [success |-> TRUE, operation |-> "unlockAccount", sAMAccountName |-> o.sam] @@ res

\* after findUserBySAM
UnlockAfterFind(o, l, resp) ==
    IF resp.searchEntries = << >> THEN Throw(UserNotFound(o.sam), l)
    ELSE LET dn == resp.searchEntries[1].dn
         IN Goto("unlock.read", BaseSearch(dn, {"lockoutTime", "userAccountControl"}),
                 [l EXCEPT !.dn = dn])

\* after the read of lockoutTime
UnlockAfterRead(o, l, resp) ==
    IF resp.searchEntries = << >>
    THEN Throw(Err("error", <<"Unable", "to", "retrieve", "lockout", "information">>), l)
    ELSE IF ~IsLocked(Attr(resp.searchEntries[1].attrs, "lockoutTime"))
         THEN Return(UnlockEnvelope(o, [wasLocked |-> FALSE,
                                        message |-> "Account was not locked"]), l)
    ELSE Goto("unlock.write", ModifyReq(l.dn, <<Replace("lockoutTime", <<"0">>)>>), l)

UnlockResume(o, p, l, resp) ==
    CASE p = "unlock.find" -> UnlockAfterFind(o, l, resp)
      [] p = "unlock.read" -> UnlockAfterRead(o, l, resp)
      [] p = "unlock.write" ->
            Return(UnlockEnvelope(o, [wasLocked |-> TRUE, unlocked |-> TRUE,
                                      message |-> "Account unlocked successfully"]), l)

(* checkPasswordExpiry *)

\* directory-timestamp units per day, scaled down (the code has 864000000000)
TicksPerDay == 4

ExpiryEnvelope(o, res) ==
    [success |-> TRUE, operation |-> "checkPasswordExpiry", sAMAccountName |-> o.sam]
    @@ res

\* user.userAccountControl?.toString() || '0', parsed; NaN & bit is 0
ExpiryUAC(raw) ==
    LET p == ParseInt(IF raw = Undefined \/ raw = << >> THEN <<"0">> ELSE raw)
    IN IF p.nan THEN 0 ELSE p.val

\* variant: the pwdLastSet "0" branch is missing
ExpiryAfterUserSkipsMustChange(o, l, resp) ==
    IF resp.searchEntries = << >> THEN Throw(UserNotFound(o.sam), l)
    ELSE LET user == resp.searchEntries[1].attrs
             pwdLastSet == Attr(user, "pwdLastSet")
         IN IF HasBit(ExpiryUAC(Attr(user, "userAccountControl")), DONT_EXPIRE_PASSWORD)
            THEN Return(ExpiryEnvelope(o,
                     [passwordNeverExpires |-> TRUE,
                      mustChangePassword |-> (pwdLastSet = <<"0">>),
                      message |-> "Password is configured to never expire"]), l)
            ELSE Goto("expiry.domain", BaseSearch(DomainDnOf(o.baseDn), {"maxPwdAge"}),
                      [l EXCEPT !.pwdLastSet = pwdLastSet])

\* after the search of the user: the first two branches of the decision tree
ExpiryAfterUser(o, l, resp) ==
    IF resp.searchEntries = << >> THEN Throw(UserNotFound(o.sam), l)
    ELSE LET user == resp.searchEntries[1].attrs
             pwdLastSet == Attr(user, "pwdLastSet")
         IN IF HasBit(ExpiryUAC(Attr(user, "userAccountControl")), DONT_EXPIRE_PASSWORD)
            THEN Return(ExpiryEnvelope(o,
                     [passwordNeverExpires |-> TRUE,
                      mustChangePassword |-> (pwdLastSet = <<"0">>),
                      message |-> "Password is configured to never expire"]), l)
            ELSE IF pwdLastSet = <<"0">>
                 THEN Return(ExpiryEnvelope(o,
                          [passwordNeverExpires |-> FALSE, mustChangePassword |-> TRUE,
                           expired |-> FALSE,
                           message |-> "User must change password at next logon"]), l)
            ELSE Goto("expiry.domain", BaseSearch(DomainDnOf(o.baseDn), {"maxPwdAge"}),
                      [l EXCEPT !.pwdLastSet = pwdLastSet])

PolicyUnavailable(o) ==
    ExpiryEnvelope(o,
        [passwordNeverExpires |-> FALSE, mustChangePassword |-> FALSE,
         expired |-> FALSE, error |-> "Unable to retrieve domain password policy"])

\* domainEntries[0].maxPwdAge?.toString() || '0', '0' when no entry came back
MaxPwdAgeOf(resp) ==
    IF resp.searchEntries = << >> THEN <<"0">>
    ELSE LET v == Attr(resp.searchEntries[1].attrs, "maxPwdAge")
         IN IF v = Undefined \/ v = << >> THEN <<"0">> ELSE v

FloorDiv(a, b) == a \div b

\* the expiry computation; a NaN makes toISOString throw, which the catch turns
\* into the policy-unavailable result
ExpiryComputed(o, pwdLastSet, maxPwdAge) ==
    LET last == ParseInt(IF pwdLastSet = Undefined \/ pwdLastSet = << >>
                         THEN <<"0">> ELSE pwdLastSet)
        age == ParseInt(maxPwdAge)
    IN IF last.nan \/ age.nan THEN PolicyUnavailable(o)
       ELSE LET maxAge == IF age.val < 0 THEN 0 - age.val ELSE age.val
                expiryTime == last.val + maxAge
                daysUntilExpiry == FloorDiv(expiryTime - o.now, TicksPerDay)
                expired == o.now > expiryTime
            IN ExpiryEnvelope(o,
                   [passwordNeverExpires |-> FALSE, mustChangePassword |-> FALSE,
                    expired |-> expired,
                    daysUntilExpiry |-> IF expired THEN 0 ELSE daysUntilExpiry,
                    message |-> IF expired THEN "Password has expired"
                                ELSE "Password expires in N day(s)"])

\* after the search of the domain root
ExpiryAfterDomain(o, l, resp) ==
    IF MaxPwdAgeOf(resp) = <<"0">> \/ MaxPwdAgeOf(resp) = MaxInt64
    THEN Return(ExpiryEnvelope(o,
             [passwordNeverExpires |-> FALSE, mustChangePassword |-> FALSE,
              expired |-> FALSE,
              message |-> "No password expiration policy configured"]), l)
    ELSE Return(ExpiryComputed(o, l.pwdLastSet, MaxPwdAgeOf(resp)), l)

ExpiryResume(o, p, l, resp) ==
    CASE p = "expiry.user" -> ExpiryAfterUser(o, l, resp)
      [] p = "expiry.domain" -> ExpiryAfterDomain(o, l, resp)

(* deleteGroup, deleteOU *)

DeleteResume(o, p, l, resp) ==
    Return([success |-> TRUE, dn |-> o.dn,
            message |-> IF o.name = "deleteGroup" THEN "Group deleted successfully"
                        ELSE "Organizational Unit deleted successfully"], l)

(* addGroupMember, removeGroupMember of the node *)

\* variant: the member values are compared without lower-casing
IsGroupMemberExact(resp, userDn) ==
    /\ resp.searchEntries # << >>
    /\ LET members == Values(resp.searchEntries[1].attrs, "member")
       IN \E i \in 1..Len(members) : members[i] = userDn

\* AdClient.isGroupMember, after its search returned: memberArray.some(m =>
\* m.toString().toLowerCase() === userDn.toLowerCase())
IsGroupMember(resp, userDn) ==
    /\ resp.searchEntries # << >>
    /\ LET members == Values(resp.searchEntries[1].attrs, "member")
       IN \E i \in 1..Len(members) : ToLowerCase(members[i]) = ToLowerCase(userDn)

MemberCheck(o, l) == Goto("member.check", BaseSearch(o.groupDn, {"member"}), l)

MemberEnvelope(o, res) ==
    [success |-> TRUE, operation |-> o.name, userDn |-> o.userDn, groupDn |-> o.groupDn]
    @@ res

AlreadyMember == Err("operation", <<"L'utilisateur", "est", "deja", "membre", "du", "groupe">>)

NotMember ==
    Err("operation", <<"L'utilisateur", "n'est", "pas", "membre", "du", "groupe">>)

\* addGroupMember, once isGroupMember gave isMember
AddMemberAfterCheck(o, l, isMember) ==
    IF isMember /\ o.skip
    THEN Return(MemberEnvelope(o, [alreadyMember |-> TRUE, skipped |-> TRUE]), l)
    ELSE IF isMember /\ ~o.skip THEN Throw(AlreadyMember, l)
    ELSE Goto("member.write", ModifyReq(o.groupDn, <<AddValue("member", o.userDn)>>), l)

\* variant: skipIfNotMember skips whatever the check found
RemoveMemberAlwaysSkips(o, l, isMember) ==
    IF o.skip
    THEN Return(MemberEnvelope(o, [notMember |-> TRUE, skipped |-> TRUE]), l)
    ELSE IF ~isMember THEN Throw(NotMember, l)
    ELSE Goto("member.write", ModifyReq(o.groupDn, <<DeleteValue("member", o.userDn)>>), l)

\* removeGroupMember, once isGroupMember gave isMember
RemoveMemberAfterCheck(o, l, isMember) ==
    IF ~isMember /\ o.skip
    THEN Return(MemberEnvelope(o, [notMember |-> TRUE, skipped |-> TRUE]), l)
    ELSE IF ~isMember /\ ~o.skip THEN Throw(NotMember, l)
    ELSE Goto("member.write", ModifyReq(o.groupDn, <<DeleteValue("member", o.userDn)>>), l)

MemberAfterCheck(o, l, isMember) ==
    IF o.name = "addGroupMember" THEN AddMemberAfterCheck(o, l, isMember)
    ELSE RemoveMemberAfterCheck(o, l, isMember)

MemberResume(o, p, l, resp) ==
    CASE p = "member.check" -> MemberAfterCheck(o, l, IsGroupMember(resp, o.userDn))
      [] p = "member.write" ->
            Return(MemberEnvelope(o, IF o.name = "addGroupMember"
                                     THEN [added |-> TRUE] ELSE [removed |-> TRUE]), l)

\* AdClient.isGroupMember: catch { return false }
MemberCheckCatch(o, l, err) == MemberAfterCheck(o, l, FALSE)

(* getUserGroups *)

\* the attributes asked of every group, by detail level
GroupAttributes(fullDetails) ==
    IF fullDetails
    THEN {"distinguishedName", "cn", "description", "groupType", "whenCreated", "memberOf"}
    ELSE {"distinguishedName", "cn"}

\* groupInfo of a direct group
DirectInfo(o, entry) ==
    IF o.fullDetails
    THEN [distinguishedName |-> entry.dn, name |-> Attr(entry.attrs, "cn"),
          description |-> IF "description" \in DOMAIN entry.attrs
                          THEN entry.attrs.description ELSE << >>,
          groupType |-> Attr(entry.attrs, "groupType"),
          whenCreated |-> Attr(entry.attrs, "whenCreated")]
    ELSE [distinguishedName |-> entry.dn, name |-> Attr(entry.attrs, "cn")]

\* the entry pushed for a parent group
InheritedInfo(o, entry) == [inherited |-> TRUE] @@ DirectInfo(o, entry)

GroupsEnvelope(o, groups) ==
    [success |-> TRUE, operation |-> "getUserGroups", sAMAccountName |-> o.sam,
     includeNested |-> o.includeNested, groupCount |-> Len(groups), groups |-> groups]

\* groups.find(g => g.distinguishedName === parentDN)
Found(groups, dn) == \E i \in 1..Len(groups) : groups[i].distinguishedName = dn

\* the loop over groupDNs: l.todo is what is left of it, its head the current one
NextDirect(o, l) ==
    IF l.todo = << >> THEN Return(GroupsEnvelope(o, l.groups), l)
    ELSE Goto("groups.direct", BaseSearch(Head(l.todo), GroupAttributes(o.fullDetails)), l)

RECURSIVE NextParent(_, _)
\* the loop over parentGroups: l.parents is what is left of it; a parent
\* already in groups is passed over
NextParent(o, l) ==
    IF l.parents = << >> THEN NextDirect(o, [l EXCEPT !.todo = Tail(@)])
    ELSE IF Found(l.groups, Head(l.parents))
         THEN NextParent(o, [l EXCEPT !.parents = Tail(@)])
    ELSE Goto("groups.parent",
              BaseSearch(Head(l.parents), GroupAttributes(o.fullDetails)), l)

\* after the search of the user
GroupsAfterUser(o, l, resp) ==
    IF resp.searchEntries = << >> THEN Throw(UserNotFound(o.sam), l)
    ELSE IF "memberOf" \notin DOMAIN resp.searchEntries[1].attrs
         THEN Return(GroupsEnvelope(o, << >>), l)
    ELSE NextDirect(o, [todo |-> resp.searchEntries[1].attrs.memberOf,
                        parents |-> << >>, groups |-> << >>])

\* after the search of a direct group
GroupsAfterDirect(o, l, resp) ==
    IF resp.searchEntries = << >> THEN NextDirect(o, [l EXCEPT !.todo = Tail(@)])
    ELSE LET group == resp.searchEntries[1]
             pushed == [l EXCEPT !.groups = Append(@, DirectInfo(o, group))]
         IN IF o.includeNested /\ "memberOf" \in DOMAIN group.attrs
            THEN NextParent(o, [pushed EXCEPT !.parents = group.attrs.memberOf])
            ELSE NextDirect(o, [pushed EXCEPT !.todo = Tail(@)])

\* variant: the parent's own memberOf is followed as well
GroupsAfterParentFollows(o, l, resp) ==
    IF resp.searchEntries = << >> THEN NextParent(o, [l EXCEPT !.parents = Tail(@)])
    ELSE NextParent(o, [l EXCEPT
             !.parents = Tail(@) \o Values(resp.searchEntries[1].attrs, "memberOf"),
             !.groups = Append(@, InheritedInfo(o, resp.searchEntries[1]))])

\* after the search of a parent group
GroupsAfterParent(o, l, resp) ==
    IF resp.searchEntries = << >> THEN NextParent(o, [l EXCEPT !.parents = Tail(@)])
    ELSE NextParent(o, [l EXCEPT !.parents = Tail(@),
                                 !.groups = Append(@, InheritedInfo(o, resp.searchEntries[1]))])

GroupsResume(o, p, l, resp) ==
    CASE p = "groups.user" -> GroupsAfterUser(o, l, resp)
      [] p = "groups.direct" -> GroupsAfterDirect(o, l, resp)
      [] p = "groups.parent" -> GroupsAfterParent(o, l, resp)

\* variant: the error of a direct group's lookup leaves the call
DirectGroupCatchRethrows(o, l, err) == Throw(err, l)

\* the catch around a direct group: on to the next groupDN
DirectGroupCatch(o, l, err) == NextDirect(o, [l EXCEPT !.todo = Tail(@)])

\* the catch around a parent group: on to the next parentDN
ParentGroupCatch(o, l, err) == NextParent(o, [l EXCEPT !.parents = Tail(@)])

(* setAttributes of the node; AdClient.modifyGroup, AdClient.modifyOU *)

\* attributes.map(attr => new Change({operation: attr.op, modification:
\* new Attribute({type: attr.name, values: attr.values})}))
ChangeOf(attr) == [operation |-> attr.op, type |-> attr.name, value |-> attr.value]

ChangesOf(attributes) == [i \in DOMAIN attributes |-> ChangeOf(attributes[i])]

SetAttributesError ==
    Err("node", <<"Au", "moins", "un", "attribut", "doit", "etre", "specifie">>)

SetAttributesEnvelope(o) ==
    [success |-> TRUE, operation |-> "setAttributes", dn |-> o.dn,
     modified |-> Len(o.attributes),
     attributes |-> [i \in DOMAIN o.attributes |->
                        [name |-> o.attributes[i].name, op |-> o.attributes[i].op]]]

\* for (const change of changes) { await client.modify(dn, change); }
SetAttributesNext(o, l) ==
    IF l.rest = << >> THEN Return(SetAttributesEnvelope(o), l)
    ELSE Goto("set.modify", ModifyReq(o.dn, <<Head(l.rest)>>), [l EXCEPT !.rest = Tail(@)])

SetAttributesStart(o) ==
    IF o.attributes = << >> THEN Throw(SetAttributesError, [rest |-> << >>])
    ELSE SetAttributesNext(o, [rest |-> ChangesOf(o.attributes)])

SetAttributesResume(o, p, l, resp) == SetAttributesNext(o, l)

\* the keys of the Record built by attributes[attr.name] = attr.value, in the
\* order of their first assignment
RECURSIVE Keys(_)
Keys(attrs) ==
    IF attrs = << >> THEN << >>
    ELSE LET init == Keys(SubSeq(attrs, 1, Len(attrs) - 1))
             k == attrs[Len(attrs)].name
         IN IF \E i \in 1..Len(init) : init[i] = k THEN init ELSE Append(init, k)

\* the value the Record holds for a key: the last one assigned
LastValue(attrs, k) ==
    attrs[CHOOSE i \in 1..Len(attrs) :
             /\ attrs[i].name = k
             /\ \A j \in (i + 1)..Len(attrs) : attrs[j].name # k].value

\* for (const [key, value] of Object.entries(attributes)) changes.push(new
\* Change({operation: 'replace', ...}))
ReplaceAll(attrs) ==
    [i \in 1..Len(Keys(attrs)) |-> Replace(Keys(attrs)[i], LastValue(attrs, Keys(attrs)[i]))]

\* modifyGroup, modifyOU: await this.modify(dn, changes)
ModifyEntryStart(o) == Goto("entry.modify", ModifyReq(o.dn, ReplaceAll(o.attributes)), NoLocals)

ModifyEntryResume(o, p, l, resp) ==
    Return([success |-> TRUE, dn |-> o.dn,
            message |-> IF o.name = "modifyGroup" THEN "Group modified successfully"
                        ELSE "Organizational Unit modified successfully"], l)

(* getUserActivity, getGroup, getOU *)

ActivityAttributes ==
    {"lastLogon", "lastLogonTimestamp", "logonCount", "pwdLastSet", "accountExpires",
     "userAccountControl", "badPasswordTime", "badPwdCount", "lockoutTime", "whenCreated",
     "whenChanged"}

\* parseInt(x?.toString() || '0', 10), in decimal
NumberOrZero(x) ==
    IF ~IsNumber(OrZero(x)) THEN <<"NaN">>
    ELSE LET n == ParseNumber(OrZero(x))
         IN (IF n.neg /\ n.m # << >> THEN <<"-">> ELSE << >>) \o BitsDigits(n.m)

\* parseInt(user.userAccountControl?.toString() || '0', 10) & bit
ControlBit(u, bit) ==
    LET p == ParseInt(OrZero(Attr(u, "userAccountControl")))
    IN ~p.nan /\ HasBit(p.val, bit)

LoginInfo(u) ==
    [lastLogon |-> convertADTimestamp(Attr(u, "lastLogon")),
     lastLogonTimestamp |-> convertADTimestamp(Attr(u, "lastLogonTimestamp")),
     logonCount |-> NumberOrZero(Attr(u, "logonCount")),
     badPasswordTime |-> convertADTimestamp(Attr(u, "badPasswordTime")),
     badPasswordCount |-> NumberOrZero(Attr(u, "badPwdCount")),
     lockoutTime |-> convertADTimestamp(Attr(u, "lockoutTime")),
     isLockedOut |-> IsLocked(Attr(u, "lockoutTime"))]

PasswordInfo(u) ==
    [passwordLastSet |-> convertADTimestamp(Attr(u, "pwdLastSet")),
     mustChangePassword |-> Attr(u, "pwdLastSet") = <<"0">>,
     passwordNeverExpires |-> ControlBit(u, DONT_EXPIRE_PASSWORD),
     accountExpires |-> convertADTimestamp(Attr(u, "accountExpires"))]

AccountInfo(u) ==
    [whenCreated |-> convertADTimestamp(Attr(u, "whenCreated")),
     whenChanged |-> convertADTimestamp(Attr(u, "whenChanged")),
     userAccountControl |-> NumberOrZero(Attr(u, "userAccountControl")),
     isEnabled |-> ~ControlBit(u, ACCOUNTDISABLE)]

\* the sections of the result, by activity type
Activity(activityType, u) ==
    (IF activityType \in {"all", "login"} THEN [loginInfo |-> LoginInfo(u)] ELSE << >>)
    @@ (IF activityType \in {"all", "password"}
        THEN [passwordInfo |-> PasswordInfo(u)] ELSE << >>)
    @@ (IF activityType = "all" THEN [accountInfo |-> AccountInfo(u)] ELSE << >>)

\* AdClient.getUserActivity after its search, in the envelope of the node
ActivityAfterUser(o, l, resp) ==
    IF resp.searchEntries = << >> THEN Throw(UserNotFound(o.sam), l)
    ELSE Return([success |-> TRUE, operation |-> "getUserActivity",
                 sAMAccountName |-> o.sam, activityType |-> o.activityType]
                @@ Activity(o.activityType, resp.searchEntries[1].attrs), l)

GroupNotFound(about) == ErrAbout("notfound", <<"Group", "not", "found">>, about)

OuNotFound(about) ==
    ErrAbout("notfound", <<"Organizational", "Unit", "not", "found">>, about)

GetGroupAttributes ==
    {"cn", "sAMAccountName", "description", "member", "groupType", "distinguishedName",
     "whenCreated", "whenChanged"}

\* x?.toString() || ''
OrEmpty(x) == IF x = Undefined THEN << >> ELSE x

\* AdClient.getGroup after its search
GetGroupAfterRead(o, l, resp) ==
    IF resp.searchEntries = << >> THEN Throw(GroupNotFound(o.dn), l)
    ELSE LET group == resp.searchEntries[1]
             decoded == GetGroupDecode(Attr(group.attrs, "groupType"))
             memberList == Values(group.attrs, "member")
         IN Return([distinguishedName |-> group.dn,
                    name |-> Attr(group.attrs, "cn"),
                    samAccountName |-> Attr(group.attrs, "sAMAccountName"),
                    description |-> OrEmpty(Attr(group.attrs, "description")),
                    groupType |-> decoded.groupType,
                    scope |-> decoded.scope,
                    groupTypeValue |-> NumberOrZero(Attr(group.attrs, "groupType")),
                    memberCount |-> Len(memberList),
                    members |-> memberList,
                    whenCreated |-> Attr(group.attrs, "whenCreated"),
                    whenChanged |-> Attr(group.attrs, "whenChanged")], l)

GetOuAttributes ==
    {"ou", "description", "distinguishedName", "whenCreated", "whenChanged", "objectClass"}

\* AdClient.getOU after its search
GetOuAfterRead(o, l, resp) ==
    IF resp.searchEntries = << >> THEN Throw(OuNotFound(o.dn), l)
    ELSE LET ou == resp.searchEntries[1]
         IN Return([distinguishedName |-> ou.dn,
                    name |-> Attr(ou.attrs, "ou"),
                    description |-> OrEmpty(Attr(ou.attrs, "description")),
                    whenCreated |-> Attr(ou.attrs, "whenCreated"),
                    whenChanged |-> Attr(ou.attrs, "whenChanged"),
                    objectClass |-> Values(ou.attrs, "objectClass")], l)

(* listUsers, listGroups *)

\* a listing option that was given: maxResults may be left out
Given(o, option) == option \in DOMAIN o

\* variant: the size limit is sent whenever maxResults was given
WithSizeLimitWhenGiven(searchOptions, o) ==
    IF Given(o, "maxResults")
    THEN ("sizeLimit" :> o.maxResults) @@ searchOptions
    ELSE searchOptions

\* if (maxResults) { searchOptions.sizeLimit = maxResults; }
WithSizeLimit(searchOptions, o) ==
    IF Given(o, "maxResults") /\ o.maxResults # 0
    THEN ("sizeLimit" :> o.maxResults) @@ searchOptions
    ELSE searchOptions

ListSearch(base, filter, attributes) ==
    [kind |-> "search", dn |-> base, scope |-> "sub", filter |-> filter,
     attributes |-> attributes]

Comparison(field, type, value) == [field |-> field, type |-> type, value |-> value]

BasicAttributes ==
    {"distinguishedName", "sAMAccountName", "userPrincipalName", "displayName",
     "givenName", "sn", "mail", "userAccountControl", "whenCreated", "lastLogon"}

\* listUsers up to its search
ListUsersStart(o) ==
    LET filter == [objectClass |-> "user",
                   any |-> IF o.searchValue = << >> THEN << >>
                           ELSE <<Comparison(o.searchField, o.filterType, o.searchValue)>>]
        attributes == IF o.includeAll THEN {"*"} ELSE BasicAttributes
    IN Goto("list.users", WithSizeLimit(ListSearch(o.baseDn, filter, attributes), o), NoLocals)

\* result.accountEnabled = !(uac & 0x0002), for a userAccountControl that is
\* not empty
WithAccountStatus(user) ==
    IF Attr(user, "userAccountControl") \in {Undefined, << >>} THEN user
    ELSE LET uac == ParseInt(user.userAccountControl)
         IN ("accountEnabled" :> (uac.nan \/ ~HasBit(uac.val, ACCOUNTDISABLE))) @@ user

\* listUsers after its search: every entry with its dn as distinguishedName,
\* and the account status
ListUsersAfterSearch(o, l, resp) ==
    LET users == [i \in 1..Len(resp.searchEntries) |->
                      WithAccountStatus(resp.searchEntries[i].attrs
                                        @@ ("distinguishedName" :> resp.searchEntries[i].dn))]
    IN Return([success |-> TRUE, count |-> Len(users), users |-> users], l)

ListGroupsAttributes ==
    {"cn", "sAMAccountName", "description", "groupType", "distinguishedName", "whenCreated"}

\* the groupType and scope options of listGroups default to 'all'
OptionOrAll(o, option) == IF Given(o, option) THEN o[option] ELSE "all"

\* listGroups up to its search
ListGroupsStart(o) ==
    LET filter == [objectClass |-> "group",
                   any |-> IF o.searchFilter = << >> THEN << >>
                           ELSE <<Comparison("cn", "contains", o.searchFilter),
                                  Comparison("sAMAccountName", "contains", o.searchFilter)>>]
    IN Goto("list.groups",
            WithSizeLimit(ListSearch(o.baseDn, filter, ListGroupsAttributes), o), NoLocals)

\* variant: the groups are returned as found
KeptByFilterAlways(o, group) == TRUE

\* the filter of listGroups: the type and the scope asked for, unless 'all'
KeptByFilter(o, group) ==
    /\ OptionOrAll(o, "groupType") = "all" \/ group.groupType = OptionOrAll(o, "groupType")
    /\ OptionOrAll(o, "scope") = "all" \/ group.scope = OptionOrAll(o, "scope")

RECURSIVE FilterGroups(_, _)
FilterGroups(o, groups) ==
    IF groups = << >> THEN << >>
    ELSE (IF KeptByFilter(o, Head(groups)) THEN <<Head(groups)>> ELSE << >>)
         \o FilterGroups(o, Tail(groups))

\* listGroups after its search: map, then filter
ListGroupsAfterSearch(o, l, resp) ==
    LET mapped == [i \in 1..Len(resp.searchEntries) |->
                      LET group == resp.searchEntries[i]
                          decoded == ListGroupsDecode(Attr(group.attrs, "groupType"))
                      IN [distinguishedName |-> group.dn,
                          name |-> Attr(group.attrs, "cn"),
                          samAccountName |-> Attr(group.attrs, "sAMAccountName"),
                          description |-> OrEmpty(Attr(group.attrs, "description")),
                          groupType |-> decoded.groupType,
                          scope |-> decoded.scope,
                          whenCreated |-> Attr(group.attrs, "whenCreated")]]
        groups == FilterGroups(o, mapped)
    IN Return([groups |-> groups, count |-> Len(groups)], l)

(* dispatch *)

\* from the call of the operation to its first await
Start(cfg, o) ==
    CASE o.name = "createUser" -> CreateUserStart(cfg, o, NoLocals)
      [] o.name = "enableUser" -> ToggleUserRead(o.dn, "enable.read", NoLocals)
      [] o.name = "disableUser" -> ToggleUserRead(o.dn, "disable.read", NoLocals)
      [] o.name = "resetPassword" ->
            SetPassword(cfg, o.dn, o.password, "reset.setPassword", NoLocals)
      [] o.name = "unlockAccount" ->
            Goto("unlock.find", UserSearch(o.baseDn, o.sam, {"distinguishedName"}), NoLocals)
      [] o.name = "checkPasswordExpiry" ->
            Goto("expiry.user",
                 UserSearch(o.baseDn, o.sam, {"pwdLastSet", "userAccountControl", "maxPwdAge"}),
                 NoLocals)
      [] o.name \in {"deleteGroup", "deleteOU"} -> Goto("del", DelReq(o.dn), NoLocals)
      [] o.name \in {"addGroupMember", "removeGroupMember"} -> MemberCheck(o, NoLocals)
      [] o.name = "getUserGroups" ->
            Goto("groups.user", UserSearch(o.baseDn, o.sam, {"memberOf"}), NoLocals)
      [] o.name = "setAttributes" -> SetAttributesStart(o)
      [] o.name \in {"modifyGroup", "modifyOU"} -> ModifyEntryStart(o)
      [] o.name = "getUserActivity" ->
            Goto("activity.user", UserSearch(o.baseDn, o.sam, ActivityAttributes), NoLocals)
      [] o.name = "getGroup" ->
            Goto("group.read", BaseSearch(o.dn, GetGroupAttributes), NoLocals)
      [] o.name = "getOU" -> Goto("ou.read", BaseSearch(o.dn, GetOuAttributes), NoLocals)
      [] o.name = "listUsers" -> ListUsersStart(o)
      [] o.name = "listGroups" -> ListGroupsStart(o)

\* an awaited primitive call returned resp
Resume(cfg, o, p, l, resp) ==
    CASE o.name = "createUser" -> CreateUserResume(cfg, o, p, l, resp)
      [] o.name = "enableUser" -> EnableResume(o, p, l, resp)
      [] o.name = "disableUser" -> DisableResume(o, p, l, resp)
      [] o.name = "resetPassword" -> ResetPasswordResume(o, p, l, resp)
      [] o.name = "unlockAccount" -> UnlockResume(o, p, l, resp)
      [] o.name = "checkPasswordExpiry" -> ExpiryResume(o, p, l, resp)
      [] o.name \in {"deleteGroup", "deleteOU"} -> DeleteResume(o, p, l, resp)
      [] o.name \in {"addGroupMember", "removeGroupMember"} -> MemberResume(o, p, l, resp)
      [] o.name = "getUserGroups" -> GroupsResume(o, p, l, resp)
      [] o.name = "setAttributes" -> SetAttributesResume(o, p, l, resp)
      [] o.name \in {"modifyGroup", "modifyOU"} -> ModifyEntryResume(o, p, l, resp)
      [] o.name = "getUserActivity" -> ActivityAfterUser(o, l, resp)
      [] o.name = "getGroup" -> GetGroupAfterRead(o, l, resp)
      [] o.name = "getOU" -> GetOuAfterRead(o, l, resp)
      [] o.name = "listUsers" -> ListUsersAfterSearch(o, l, resp)
      [] o.name = "listGroups" -> ListGroupsAfterSearch(o, l, resp)

\* variant: the catch of the policy lookup rethrows
ExpiryCatchRethrows(o, l, err) == Throw(err, l)

\* checkPasswordExpiry: the catch around the policy lookup
ExpiryCatch(o, l, err) == Return(PolicyUnavailable(o), l)

\* the awaits that sit in a try block
InTryBlock(p) == p \in {"expiry.domain", "member.check", "groups.direct", "groups.parent"}

\* what the catch of that try block does with err
Caught(o, p, l, err) ==
    CASE p = "expiry.domain" -> ExpiryCatch(o, l, err)
      [] p = "member.check" -> MemberCheckCatch(o, l, err)
      [] p = "groups.direct" -> DirectGroupCatch(o, l, err)
      [] p = "groups.parent" -> ParentGroupCatch(o, l, err)

\* variant: createUser swallows a failed setPassword and goes on
FailKeepsGoing(o, p, l, err) ==
    IF InTryBlock(p) THEN Caught(o, p, l, err)
    ELSE IF p = "create.setPassword" THEN CreateUserAfterPassword(o, l)
    ELSE Throw(err, l)

\* an awaited primitive call threw err: the catch of its try block runs, or
\* the error leaves the operation
Fail(o, p, l, err) ==
    IF InTryBlock(p) THEN Caught(o, p, l, err) ELSE Throw(err, l)

-----------------------------------------------------------------------------
(* Initial states: one operation invoked on a bound client *)

Sentinel == MaxInt64

DomainEntry(maxPwdAge) ==
    IF maxPwdAge = Undefined THEN [objectClass |-> <<"top", "domainDNS">>]
    ELSE [objectClass |-> <<"top", "domainDNS">>, maxPwdAge |-> maxPwdAge]

ContainerEntry == [objectClass |-> <<"top", "organizationalUnit">>]

GroupEntry == [objectClass |-> <<"top", "group">>, sAMAccountName |-> <<"g">>]

\* a group with the given members
GroupWith(members) == IF members = << >> THEN GroupEntry ELSE (("member" :> members) @@ GroupEntry)

OtherDn == <<"C", "N", "=", "k", ",">> \o BaseDn

\* the user's DN as the directory may store it in member: in another case
StoredUserDn == ToLowerCase(UserDn)

\* the groups of the membership graph: the user's groups g and h, their parent
\* p, its parent q; x names no entry
GroupG == GroupDn
GroupH == <<"C", "N", "=", "h", ",">> \o BaseDn
GroupP == <<"C", "N", "=", "p", ",">> \o BaseDn
GroupQ == <<"C", "N", "=", "q", ",">> \o BaseDn
GroupX == <<"C", "N", "=", "x", ",">> \o BaseDn

GroupNode(cn, memberOf) ==
    LET e == [objectClass |-> <<"top", "group">>, sAMAccountName |-> cn, cn |-> cn]
    IN IF memberOf = << >> THEN e ELSE ("memberOf" :> memberOf) @@ e

\* the user's memberOf values, none for an absent attribute
UserMemberOfValues ==
    { << >>, <<GroupG>>, <<GroupG, GroupP>>, <<GroupP, GroupG>>, <<GroupG, GroupH>>,
      <<GroupX, GroupG>> }

MemberLists ==
    { << >>, <<UserDn>>, <<StoredUserDn>>, <<OtherDn>>, <<OtherDn, UserDn>> }

UserBase ==
    [objectClass |-> <<"top", "person", "organizationalPerson", "user">>,
     sAMAccountName |-> UserSam]

\* a user entry with the given optional attributes (Undefined: absent)
UserEntry(uac, pwdLastSet, lockoutTime) ==
    LET given == [userAccountControl |-> uac, pwdLastSet |-> pwdLastSet,
                  lockoutTime |-> lockoutTime]
        present == {a \in DOMAIN given : given[a] # Undefined}
    IN [a \in present |-> given[a]] @@ UserBase

Tree(maxPwdAge) == (DomainDn :> DomainEntry(maxPwdAge)) @@ (BaseDn :> ContainerEntry)

GraphTree(userMemberOf) ==
    (UserDn :> (IF userMemberOf = << >> THEN UserBase
                ELSE ("memberOf" :> userMemberOf) @@ UserBase))
    @@ (GroupG :> GroupNode(<<"g">>, <<GroupP>>))
    @@ (GroupH :> GroupNode(<<"h">>, <<GroupP>>))
    @@ (GroupP :> GroupNode(<<"p">>, <<GroupQ>>))
    @@ (GroupQ :> GroupNode(<<"q">>, << >>))
    @@ Tree(Undefined)

UACValues ==
    { Undefined, <<"x">>, <<"0">>, <<"2">>, <<"1", "6">>, <<"5", "1", "2">>,
      <<"5", "1", "4">>, <<"5", "4", "6">>,
      <<"6", "6", "0", "4", "8">>, <<"6", "6", "0", "5", "0">> }

TimeValues == { Undefined, <<"0">>, <<"5">> }

MaxPwdAgeValues == { Undefined, <<"0">>, Sentinel, <<"-", "8">>, <<"x">> }

Nows == { 9, 14 }

CNs == { <<"j", "r">>, <<"a", ",", "b">>, <<" ", "J", " ", "R", " ">> }

SAMs == { <<"j", "r">>, << >>, <<"j", " ", "r">>, [i \in 1..(MaxSamLen + 1) |-> "a"] }

UPNs == { <<"j", "@", "c", ".", "t">>, <<"j", "r">>, <<"j", "@", "c">>,
          <<"j", "@", "@", "c", ".", "t">> }

Passwords == { <<"T", "!", "2">> }

\* the attributes of a setAttributes call: none, one, and two of which the
\* directory may refuse the second
AttributeLists ==
    { << >>,
      <<[name |-> "description", op |-> "replace", value |-> <<"a">>]>>,
      <<[name |-> "description", op |-> "replace", value |-> <<"a">>],
        [name |-> "info", op |-> "add", value |-> <<"b">>]>>,
      <<[name |-> "info", op |-> "delete", value |-> <<"b">>],
        [name |-> "description", op |-> "replace", value |-> <<"a">>]>> }

\* the attribute collection of a modify group or modify OU call: none, one,
\* two, and one name given twice
NameValueLists ==
    { << >>,
      <<[name |-> "description", value |-> <<"a">>]>>,
      <<[name |-> "description", value |-> <<"a">>], [name |-> "info", value |-> <<"b">>]>>,
      <<[name |-> "description", value |-> <<"a">>], [name |-> "info", value |-> <<"b">>],
        [name |-> "description", value |-> <<"c">>]>> }

\* a lastLogon of 2025-11-05, and the groupType values of a global security
\* group, signed and unsigned, and of a domain-local distribution group
LastLogon ==
    <<"1", "3", "4", "0", "6", "7", "7", "4", "4", "0", "0", "0", "0", "0", "0", "0", "0", "0">>

StoredGroupTypes ==
    { <<"-", "2", "1", "4", "7", "4", "8", "3", "6", "4", "6">>,
      <<"2", "1", "4", "7", "4", "8", "3", "6", "5", "0">>,
      <<"4">> }

\* an entry with an info attribute
WithInfo(e) == ("info" :> <<"x">>) @@ e

Ops ==
    [name : {"createUser"}, cn : CNs, parentOuDn : {BaseDn}, sam : SAMs, upn : UPNs,
     password : Passwords, pwdMustChange : BOOLEAN, enableImmediately : BOOLEAN]
    \cup [name : {"enableUser", "disableUser"}, dn : {UserDn}]
    \cup [name : {"resetPassword"}, dn : {UserDn}, password : Passwords,
          forceChange : BOOLEAN]
    \cup [name : {"unlockAccount"}, sam : {UserSam}, baseDn : {BaseDn}]
    \cup [name : {"checkPasswordExpiry"}, sam : {UserSam}, baseDn : {BaseDn}, now : Nows]
    \cup [name : {"deleteGroup"}, dn : {GroupDn}]
    \cup [name : {"deleteOU"}, dn : {OuDn}]
    \cup [name : {"addGroupMember", "removeGroupMember"}, userDn : {UserDn},
          groupDn : {GroupDn}, skip : BOOLEAN]
    \cup [name : {"getUserGroups"}, sam : {UserSam}, baseDn : {BaseDn},
          includeNested : BOOLEAN, fullDetails : BOOLEAN]
    \cup [name : {"setAttributes"}, dn : {UserDn}, attributes : AttributeLists]
    \cup [name : {"modifyGroup"}, dn : {GroupDn}, attributes : NameValueLists]
    \cup [name : {"modifyOU"}, dn : {OuDn}, attributes : NameValueLists]
    \cup [name : {"getUserActivity"}, sam : {UserSam}, baseDn : {BaseDn},
          activityType : {"all", "login", "password"}]
    \cup [name : {"getGroup"}, dn : {GroupDn}]
    \cup [name : {"getOU"}, dn : {OuDn}]

\* the directory states an operation is started in: the attributes the
\* operation never reads are left at one value
DirsFor(o) ==
    CASE o.name = "createUser" ->
            { Tree(Undefined),
              (UserDn :> UserEntry(<<"5", "1", "2">>, Undefined, Undefined))
                  @@ Tree(Undefined) }
      [] o.name \in {"enableUser", "disableUser"} ->
            { Tree(Undefined) }
            \cup { (UserDn :> UserEntry(u, Undefined, Undefined)) @@ Tree(Undefined) :
                       u \in UACValues }
      [] o.name = "resetPassword" ->
            { Tree(Undefined),
              (UserDn :> UserEntry(<<"5", "1", "2">>, <<"5">>, Undefined))
                  @@ Tree(Undefined) }
      [] o.name = "unlockAccount" ->
            { Tree(Undefined) }
            \cup { (UserDn :> UserEntry(<<"5", "1", "2">>, Undefined, t)) @@ Tree(Undefined) :
                       t \in TimeValues }
      [] o.name = "checkPasswordExpiry" ->
            { Tree(Undefined) }
            \cup { (UserDn :> UserEntry(u, t, Undefined)) @@ Tree(m) :
                       u \in {Undefined, <<"5", "1", "2">>, <<"6", "6", "0", "4", "8">>},
                       t \in TimeValues, m \in MaxPwdAgeValues }
      [] o.name = "deleteGroup" ->
            { Tree(Undefined), (GroupDn :> GroupEntry) @@ Tree(Undefined) }
      [] o.name \in {"addGroupMember", "removeGroupMember"} ->
            { Tree(Undefined) }
            \cup { (GroupDn :> GroupWith(m)) @@ Tree(Undefined) : m \in MemberLists }
      [] o.name = "getUserGroups" ->
            { Tree(Undefined) } \cup { GraphTree(m) : m \in UserMemberOfValues }
      [] o.name = "setAttributes" ->
            { Tree(Undefined), (UserDn :> UserBase) @@ Tree(Undefined),
              (UserDn :> WithInfo(UserBase)) @@ Tree(Undefined) }
      [] o.name = "modifyGroup" ->
            { Tree(Undefined), (GroupDn :> GroupEntry) @@ Tree(Undefined),
              (GroupDn :> WithInfo(GroupEntry)) @@ Tree(Undefined) }
      [] o.name = "modifyOU" ->
            { Tree(Undefined), (OuDn :> ContainerEntry) @@ Tree(Undefined),
              (OuDn :> WithInfo(ContainerEntry)) @@ Tree(Undefined) }
      [] o.name = "getUserActivity" ->
            { Tree(Undefined),
              (UserDn :> UserEntry(<<"5", "1", "4">>, <<"0">>, Undefined)) @@ Tree(Undefined),
              (UserDn :> (("lastLogon" :> LastLogon)
                          @@ UserEntry(<<"6", "6", "0", "4", "8">>, LastLogon, <<"0">>)))
                  @@ Tree(Undefined) }
      [] o.name = "getGroup" ->
            { Tree(Undefined) }
            \cup { (GroupDn :> GroupWith(<<UserDn>>)) @@ Tree(Undefined) }
            \cup { (GroupDn :> (("groupType" :> t) @@ GroupEntry)) @@ Tree(Undefined) :
                       t \in StoredGroupTypes }
      [] o.name = "getOU" ->
            { Tree(Undefined), (OuDn :> ContainerEntry) @@ Tree(Undefined) }
      [] o.name = "deleteOU" ->
            { Tree(Undefined),
              (OuDn :> ContainerEntry) @@ Tree(Undefined),
              (OuDn :> ContainerEntry)
                  @@ ((<<"C", "N", "=", "x", ",">> \o OuDn) :> GroupEntry)
                  @@ Tree(Undefined) }

NoCall == [n |-> 0, phase |-> "idle", try |-> 0, req |-> NoReq]

IdleCodec == cIn = << >> /\ cOps = << >> /\ cOut = << >>

\* no batch: the operation is invoked on the client directly
IdleBatch ==
    /\ items = << >>
    /\ continueOnFail = FALSE
    /\ itemIndex = 0
    /\ returnData = << >>
    /\ exec = "none"
    /\ raised = NoErr
    /\ wire = << >>

\* the credentials of the node: the account execute binds with
ServiceAccount == [bindDn |-> <<"s", "v", "c">>, password |-> <<"k", "1">>]

Credentials == {ServiceAccount, [bindDn |-> <<"o", "p", "s">>, password |-> <<"k", "2">>]}

\* new AdClient({ url, bindDn, password, ..., isSecure }, baseDn) in execute
NewConfig(credentials, secure) ==
    [isSecure |-> secure, bindDn |-> credentials.bindDn, password |-> credentials.password]

\* client.bind(credentials.bindDn, credentials.password) in execute
FirstBindIdentity(credentials) == <<credentials.bindDn, credentials.password>>

\* variant: the rebind names the account and gives no secret
RebindIdentityNoSecret(cfg) == <<cfg.bindDn, << >>>>

\* reconnect: this.client.bind(this.config.bindDn, this.config.password)
RebindIdentity(cfg) == <<cfg.bindDn, cfg.password>>

\* history entry: one bind of a Client object
BindEv(by, identity, ok) == [by |-> by, as |-> identity, ok |-> ok]

\* no other writer has touched the directory
Alone == others = << >>

\* a client whose connection was never replaced and never closed
FreshSession == orphans = 0 /\ unbinds = << >>

\* the client that execute has bound for the operation
BoundBy(credentials) == binds = <<BindEv("execute", FirstBindIdentity(credentials), TRUE)>>

Init ==
    /\ \E credentials \in Credentials, secure \in BOOLEAN :
          /\ config = NewConfig(credentials, secure)
          /\ BoundBy(credentials)
    /\ op \in Ops
    /\ dir \in DirsFor(op)
    /\ dir0 = dir
    /\ conn = "bound"
    /\ pc = "start"
    /\ call = NoCall
    /\ locals = NoLocals
    /\ sent = << >>
    /\ result = Pending
    /\ faults = 0
    /\ IdleCodec
    /\ IdleBatch
    /\ FreshSession
    /\ Alone

-----------------------------------------------------------------------------
(* Actions *)

\* history entries: a request attempted on the wire, a reconnect, and the
\* return (or throw) of an AdClient primitive call
AttemptEv(c, o, session) ==
    [ev |-> "attempt", call |-> c.n, try |-> c.try, req |-> c.req, ok |-> o.ok,
     err |-> o.err, resp |-> o.resp, on |-> session, fault |-> o.fault]

ReconnectEv(c, ok, e) ==
    [ev |-> "reconnect", call |-> c.n, try |-> c.try, req |-> c.req, ok |-> ok,
     err |-> e, resp |-> NoResp]

ReturnEv(c, ok, e, resp) ==
    [ev |-> "return", call |-> c.n, try |-> c.try, req |-> c.req, ok |-> ok,
     err |-> e, resp |-> resp]

\* take the step of the operation: finish, or suspend at the next primitive call
Take(step) ==
    /\ pc' = step.pc
    /\ locals' = step.locals
    /\ result' = step.result
    /\ call' = IF step.req = NoReq THEN [NoCall EXCEPT !.n = call.n]
               ELSE [n |-> call.n + 1, phase |-> "send", try |-> 1, req |-> step.req]

\* the operation runs from its call to its first await
Begin ==
    /\ pc = "start"
    /\ Take(Start(config, op))
    /\ UNCHANGED <<config, dir, dir0, conn, op, sent, faults>>
    /\ UNCHANGED codecVars
    /\ UNCHANGED batchVars
    /\ UNCHANGED raceVars
    /\ UNCHANGED sessVars

\* what the wrapper does with the failure of attempt number try
OnFailure(try, err) == IF try = 1 THEN OnFirstFailure(err) ELSE OnRetryFailure(err)

\* one attempt of the primitive on this.client: the first, or the retry
Attempt ==
    /\ call.phase = "send"
    /\ \E o \in OutcomesOn(conn, dir, call.req, MaxFaults - faults) :
          /\ dir' = o.dir
          /\ faults' = faults + o.fault
          /\ IF o.ok
             THEN /\ sent' = sent \o <<AttemptEv(call, o, conn), ReturnEv(call, TRUE, NoErr, o.resp)>>
                  /\ Take(Resume(config, op, pc, locals, o.resp))
             ELSE IF OnFailure(call.try, o.err) = "reconnect"
                  THEN /\ sent' = Append(sent, AttemptEv(call, o, conn))
                       /\ call' = [call EXCEPT !.phase = "reconnect"]
                       /\ UNCHANGED <<pc, locals, result>>
                  ELSE /\ sent' = sent \o <<AttemptEv(call, o, conn),
                                            ReturnEv(call, FALSE, o.err, NoResp)>>
                       /\ Take(Fail(op, pc, locals, o.err))
    /\ UNCHANGED <<config, dir0, conn, op>>
    /\ UNCHANGED codecVars
    /\ UNCHANGED batchVars
    /\ UNCHANGED raceVars
    /\ UNCHANGED sessVars

\* what the close of the underlying connection may raise
CloseErrors == { Err("close", <<"write", "after", "end">>) }

\* the outcomes of this.client.unbind() on a session in state c: the
\* connection is closed, or, while the fault budget lasts, the close raises
\* and the connection, if there was one, is closed or is left open
CloseOutcomes(c, budget) ==
    {[err |-> NoErr, open |-> FALSE, fault |-> 0]}
    \cup (IF budget > 0
          THEN {[err |-> e, open |-> o, fault |-> 1] :
                    e \in CloseErrors, o \in (IF c = "bound" THEN BOOLEAN ELSE {FALSE})}
          ELSE {})

\* variant: unbind lets the error of the close out
UnbindRethrows(closeErr) == closeErr

\* AdClient.unbind: try { await this.client.unbind() } catch { }: the error
\* that leaves it, NoErr for a normal return
Unbind(closeErr) == NoErr

\* history: the number of requests put on the wire so far
RequestsSoFar ==
    Cardinality({k \in DOMAIN wire : wire[k].e.ev = "attempt"})
    + Cardinality({k \in DOMAIN sent : sent[k].ev = "attempt"})

\* history entry: one AdClient.unbind call, made after n requests
UnbindEv(by, c, o, n) ==
    [by |-> by, was |-> c, err |-> o.err, open |-> o.open, threw |-> Unbind(o.err),
     after |-> n]

\* AdClient.reconnect: quiet unbind, a new Client in place of the old one, bind
\* with the configured identity; the rebind succeeds, or fails and its error
\* leaves the call
Reconnect ==
    /\ call.phase = "reconnect"
    /\ \E o \in CloseOutcomes(conn, MaxFaults - faults) :
          /\ unbinds' = Append(unbinds, UnbindEv("reconnect", conn, o, RequestsSoFar))
          /\ orphans' = orphans + (IF o.open THEN 1 ELSE 0)
          /\ \/ /\ conn' = "bound"
                /\ binds' = Append(binds, BindEv("reconnect", RebindIdentity(config), TRUE))
                /\ call' = [call EXCEPT !.phase = "send", !.try = @ + 1]
                /\ sent' = Append(sent, ReconnectEv(call, TRUE, NoErr))
                /\ faults' = faults + o.fault
                /\ UNCHANGED <<pc, locals, result>>
             \/ /\ faults + o.fault < MaxFaults
                /\ binds' = Append(binds, BindEv("reconnect", RebindIdentity(config), FALSE))
                /\ \E e \in BindErrors :
                      /\ conn' = "unbound"
                      /\ faults' = faults + o.fault + 1
                      /\ sent' = sent \o <<ReconnectEv(call, FALSE, e),
                                           ReturnEv(call, FALSE, e, NoResp)>>
                      /\ Take(Fail(op, pc, locals, e))
    /\ UNCHANGED <<config, dir, dir0, op>>
    /\ UNCHANGED codecVars
    /\ UNCHANGED batchVars
    /\ UNCHANGED raceVars

Next == Begin \/ Attempt \/ Reconnect

Spec == Init /\ [][Next]_vars

-----------------------------------------------------------------------------
(* One operation while another writer changes the entry it works on: the    *)
(* directory serves other clients between the awaits of the operation       *)

\* changes made by other writers during one operation
MaxOtherWrites == 1

RaceOps ==
    [name : {"enableUser", "disableUser"}, dn : {UserDn}]
    \cup [name : {"addGroupMember", "removeGroupMember"}, userDn : {UserDn},
          groupDn : {GroupDn}, skip : BOOLEAN]

\* a stored account-control value with bit b flipped
Flipped(raw, b) ==
    LET v == ParseInt(raw).val IN ToStr(IF HasBit(v, b) THEN ClearBit(v, b) ELSE SetBit(v, b))

\* what another writer may do to the entry operation o works on in directory
\* d: flip an account-control bit other than ACCOUNTDISABLE of the user, put
\* the user in the group, take the user out of it
OtherChanges(d, o) ==
    IF o.name \in {"enableUser", "disableUser"}
    THEN IF Exists(d, o.dn) /\ ~ParseInt(Attr(d[o.dn], "userAccountControl")).nan
         THEN {[dn |-> o.dn, bit |-> DONT_EXPIRE_PASSWORD,
                change |-> Replace("userAccountControl",
                                   Flipped(Attr(d[o.dn], "userAccountControl"),
                                           DONT_EXPIRE_PASSWORD))]}
         ELSE {}
    ELSE IF Exists(d, o.groupDn)
         THEN {[dn |-> o.groupDn, bit |-> 0,
                change |-> IF HasValue(d[o.groupDn], "member", o.userDn)
                           THEN DeleteValue("member", o.userDn)
                           ELSE AddValue("member", o.userDn)]}
         ELSE {}

\* history entry: a change of another writer, made while call n of the
\* operation was in progress and k events of the operation had happened
OtherEv(w, n, k) == [dn |-> w.dn, bit |-> w.bit, change |-> w.change, call |-> n, at |-> k]

RaceInit ==
    /\ Init
    /\ op \in RaceOps
    /\ config.bindDn = ServiceAccount.bindDn

\* the directory applies the change of another writer while the operation is
\* suspended at an await
OtherWrite ==
    /\ call.phase # "idle"
    /\ Len(others) < MaxOtherWrites
    /\ \E w \in OtherChanges(dir, op) :
          /\ dir' = [dir EXCEPT ![w.dn] = ApplyChange(@, w.change)]
          /\ others' = Append(others, OtherEv(w, call.n, Len(sent)))
    /\ UNCHANGED <<config, dir0, conn, op, pc, call, locals, sent, result, faults>>
    /\ UNCHANGED codecVars
    /\ UNCHANGED batchVars
    /\ UNCHANGED sessVars

RaceNext == Begin \/ Attempt \/ Reconnect \/ OtherWrite

SpecRace == RaceInit /\ [][RaceNext]_vars

-----------------------------------------------------------------------------
(* Listings: listUsers and listGroups on a bound client, over a directory of *)
(* a few users and groups                                                     *)

\* the largest cap drawn
MaxResults == 2

ListedUser(sam) ==
    [objectClass |-> <<"top", "person", "organizationalPerson", "user">>,
     sAMAccountName |-> sam]

ListedGroup(cn, groupType) == ("groupType" :> groupType) @@ GroupNode(cn, << >>)

\* three users, and three groups: a global security group, a universal
\* distribution group and a universal security group
ListTree ==
    (UserDn :> (("userAccountControl" :> <<"5", "1", "4">>) @@ ListedUser(UserSam)))
    @@ (OtherDn :> ListedUser(<<"k">>))
    @@ ((<<"C", "N", "=", "j", "a", ",">> \o BaseDn) :> ListedUser(<<"j", "a">>))
    @@ (GroupG :> ListedGroup(<<"g">>, <<"-", "2", "1", "4", "7", "4", "8", "3", "6", "4", "6">>))
    @@ (GroupH :> ListedGroup(<<"h">>, <<"8">>))
    @@ (GroupP :> ListedGroup(<<"p", "g">>, <<"-", "2", "1", "4", "7", "4", "8", "3", "6", "4", "0">>))
    @@ Tree(Undefined)

\* the options of a listing, with maxResults given or left out
ListOps ==
    LET users == [name : {"listUsers"}, baseDn : {BaseDn}, filterType : {"exact", "startswith"},
                  searchValue : {<< >>, <<"j">>}, searchField : {"sAMAccountName"},
                  includeAll : BOOLEAN]
        groups == [name : {"listGroups"}, baseDn : {BaseDn}, searchFilter : {<< >>, <<"g">>},
                   groupType : {"all", "security", "distribution"},
                   scope : {"all", "global", "universal"}]
        options == users \cup groups
    IN options \cup {("maxResults" :> n) @@ o : o \in options, n \in 0..MaxResults}

ListInit ==
    /\ config = NewConfig(ServiceAccount, TRUE)
    /\ BoundBy(ServiceAccount)
    /\ op \in ListOps
    /\ dir \in {Tree(Undefined), ListTree}
    /\ dir0 = dir
    /\ conn = "bound"
    /\ pc = "start"
    /\ call = NoCall
    /\ locals = NoLocals
    /\ sent = << >>
    /\ result = Pending
    /\ faults = 0
    /\ IdleCodec
    /\ IdleBatch
    /\ FreshSession
    /\ Alone

SpecList == ListInit /\ [][Next]_vars

-----------------------------------------------------------------------------

(* The account-control toggle as a function: enable and disable applied in  *)
(* sequence to a stored userAccountControl value, each reading what the     *)
(* previous one wrote                                                       *)

ToggleBits == {ACCOUNTDISABLE, 16, NORMAL_ACCOUNT, DONT_EXPIRE_PASSWORD}

RECURSIVE Sum(_)
Sum(S) == IF S = {} THEN 0 ELSE LET x == CHOOSE y \in S : TRUE IN x + Sum(S \ {x})

\* every stored value over ToggleBits, an unparseable value and an absent one
ToggleInputs == {ToStr(Sum(B)) : B \in SUBSET ToggleBits} \cup {Undefined, <<"x">>}

IdleExec ==
    /\ config = NewConfig(ServiceAccount, TRUE)
    /\ binds = << >>
    /\ op = [name |-> "none"]
    /\ dir = Tree(Undefined)
    /\ dir0 = dir
    /\ conn = "unbound"
    /\ pc = "idle"
    /\ call = NoCall
    /\ locals = NoLocals
    /\ sent = << >>
    /\ result = Pending
    /\ faults = 0

ToggleInit ==
    /\ IdleExec
    /\ IdleBatch
    /\ FreshSession
    /\ Alone
    /\ cIn \in ToggleInputs
    /\ cOps = << >>
    /\ cOut = <<cIn>>

\* enableUser on the stored value: what its modify writes
ApplyEnable ==
    /\ Len(cOps) < MaxToggles
    /\ cOps' = Append(cOps, "enable")
    /\ cOut' = Append(cOut, ToStr(EnabledUAC(cOut[Len(cOut)])))
    /\ UNCHANGED cIn
    /\ UNCHANGED execVars
    /\ UNCHANGED batchVars
    /\ UNCHANGED raceVars
    /\ UNCHANGED sessVars

\* disableUser on the stored value: what its modify writes
ApplyDisable ==
    /\ Len(cOps) < MaxToggles
    /\ cOps' = Append(cOps, "disable")
    /\ cOut' = Append(cOut, ToStr(DisabledUAC(cOut[Len(cOut)])))
    /\ UNCHANGED cIn
    /\ UNCHANGED execVars
    /\ UNCHANGED batchVars
    /\ UNCHANGED raceVars
    /\ UNCHANGED sessVars

ToggleNext == ApplyEnable \/ ApplyDisable

SpecToggle == ToggleInit /\ [][ToggleNext]_vars

-----------------------------------------------------------------------------
(* The attribute codec as functions: escapeDN, validateSAMAccountName and   *)
(* validateUPN applied to a candidate string                                *)

\* length of the strings escaped
MaxDnLen == 3

\* length of the short sAMAccountName candidates
MaxSamText == 2

\* length of the userPrincipalName candidates
MaxUpnLen == 6

\* the strings over alphabet A of length up to n
TextsOver(A, n) == UNION {[1..k -> A] : k \in 0..n}

RECURSIVE Fill(_)
Fill(n) == IF n = 0 THEN << >> ELSE <<"a">> \o Fill(n - 1)

DnAlphabet == {"\\", ",", "+", "\"", "<", ">", ";", "=", "#", " ", "a"}

SamAlphabet ==
    {" ", "\t", "\n", "\"", "/", "\\", "[", "]", ":", ";", "|", "=", ",", "+", "*", "?",
     "<", ">", "a", "-"}

UpnAlphabet == {"a", "@", ".", " ", "\t"}

\* short candidates, and candidates of the lengths around the limit
SamInputs ==
    TextsOver(SamAlphabet, MaxSamText)
    \cup {s \o Fill(n) : s \in TextsOver(SamAlphabet, 1),
                         n \in (MaxSamLen - 2)..(MaxSamLen + 1)}

\* the options of createGroup: <<groupType, scope>>
GroupOptions ==
    {"security", "distribution", Absent} \X {"global", "domainLocal", "universal", Absent}

\* how far the instants and raw values drawn lie above their bases
MaxOffset == 15

\* the decimal numbers base, base + 1, ..., base + MaxOffset
Above(base) ==
    {BitsDigits(AddB(DigitsBits(base, << >>), Small(k))) : k \in 0..MaxOffset}

\* instants (Date.now()): the epoch, 2025-11-05, and 2057-09-06T23:40:07.580Z,
\* where the encoding reaches 2^57
InstantInputs ==
    Above(<<"0">>)
    \cup Above(<<"1", "7", "6", "2", "3", "0", "0", "8", "0", "0", "0", "0", "0">>)
    \cup Above(<<"2", "7", "6", "7", "0", "4", "5", "2", "0", "7", "5", "8", "0">>)

\* stored timestamps: the unset values, 1601, 1970, and a lastLogon of 2025
\* that ends just below a whole millisecond
RawInputs ==
    {Undefined, <<"0">>, MaxInt64, <<"-", "1">>}
    \cup Above(<<"1">>)
    \cup Above(<<"9", "9", "9", "0">>)
    \cup Above(UnixEpochTicks)
    \cup Above(<<"1", "3", "4", "0", "6", "7", "7", "4", "4", "0", "0", "0", "0", "0",
                "9", "9", "9", "0">>)

\* components of a configured base DN: other keys, DC in either case, with
\* spaces around the component or inside it, a value that holds DC=, a key
\* that ends in DC, a component with no key, an empty component
BaseComponents ==
    {<<"O", "U", "=", "x">>, <<"D", "C", "=", "a">>, <<"D", "C", "=", "b">>,
     <<"d", "c", "=", "a">>, <<" ", "D", "c", "=", "b", " ">>, <<"D", "C", " ", "=", "a">>,
     <<"C", "N", "=", "D", "C", "=">>, <<"X", "D", "C", "=", "a">>, <<"D", "C">>, << >>}

\* the most components a base DN drawn has
MaxParts == 3

\* a base DN and the components it was written from
BaseInputs ==
    {[kind |-> "base", val |-> Join(parts, ","), parts |-> parts] :
        parts \in UNION {[1..n -> BaseComponents] : n \in 1..MaxParts}}

\* the instant of the expiry checks, 2025-11-05, and the policies read:
\* maxPwdAge of one day and of 42 days, stored negative or positive
ExpiryInstant == <<"1", "7", "6", "2", "3", "0", "0", "8", "0", "0", "0", "0", "0">>

OneDayAge == <<"8", "6", "4", "0", "0", "0", "0", "0", "0", "0", "0", "0">>

PolicyAges == {OneDayAge, <<"3", "6", "2", "8", "8", "0", "0", "0", "0", "0", "0", "0", "0", "0">>}

\* how far after the instant the passwords drawn expire: at it, a day
\* after it, two days after it
ExpiryLeads == {<<"0">>, OneDayAge, <<"1", "7", "2", "8", "0", "0", "0", "0", "0", "0", "0", "0", "0">>}

\* how far below its base the pwdLastSet values drawn start
HalfStep == (MaxOffset + 1) \div 2

\* pwdLastSet values whose expiry lies around instant + lead: from HalfStep
\* ticks before it on
LastSetAround(age, lead) ==
    LET now == AddB(MulAdd(DigitsBits(ExpiryInstant, << >>), 10000, 0),
                    DigitsBits(UnixEpochTicks, << >>))
        base == SubB(AddB(now, DigitsBits(lead, << >>)),
                     AddB(DigitsBits(age, << >>), Small(HalfStep)))
    IN Above(BitsDigits(base))

\* the pwdLastSet of the user, the maxPwdAge of the domain, and Date.now()
ExpiryInputs ==
    UNION {{[kind |-> "expiry", pwdLastSet |-> p, maxPwdAge |-> sign \o age,
             val |-> ExpiryInstant] :
               p \in {Undefined} \cup UNION {LastSetAround(age, lead) : lead \in ExpiryLeads},
               sign \in {<< >>, <<"-">>}} : age \in PolicyAges}

CodecInputs ==
    {[kind |-> "dn", val |-> s] : s \in TextsOver(DnAlphabet, MaxDnLen)}
    \cup {[kind |-> "sam", val |-> s] : s \in SamInputs}
    \cup {[kind |-> "upn", val |-> s] : s \in TextsOver(UpnAlphabet, MaxUpnLen)}
    \cup {[kind |-> "group", val |-> o] : o \in GroupOptions}
    \cup {[kind |-> "instant", val |-> ms] : ms \in InstantInputs}
    \cup {[kind |-> "raw", val |-> r] : r \in RawInputs}
    \cup ExpiryInputs
    \cup BaseInputs

CodecInit ==
    /\ IdleExec
    /\ IdleBatch
    /\ FreshSession
    /\ Alone
    /\ cIn \in CodecInputs
    /\ cOps = << >>
    /\ cOut = << >>

\* the function applied to the candidate, and what it returned
Gives(f, out) ==
    /\ cOps = << >>
    /\ cOps' = <<f>>
    /\ cOut' = <<out>>
    /\ UNCHANGED cIn
    /\ UNCHANGED execVars
    /\ UNCHANGED batchVars
    /\ UNCHANGED raceVars
    /\ UNCHANGED sessVars

ApplyEscapeDN == cIn.kind = "dn" /\ Gives("escapeDN", escapeDN(cIn.val))

ApplyValidateSAM ==
    cIn.kind = "sam" /\ Gives("validateSAMAccountName", validateSAMAccountName(cIn.val))

ApplyValidateUPN == cIn.kind = "upn" /\ Gives("validateUPN", validateUPN(cIn.val))

\* createGroup on the options: the groupType it sends
ApplyCreateGroup ==
    /\ cIn.kind = "group"
    /\ Gives("createGroup", GroupTypeSent(cIn.val[1], cIn.val[2]))

\* a later read of the group: the stored value handed back in one of its
\* readings, decoded by decode
ReadBack(f, decode(_)) ==
    /\ cOps = <<"createGroup">>
    /\ \E r \in Readings :
          /\ cOps' = cOps \o <<r, f>>
          /\ cOut' = cOut \o <<StoredAs(cOut[1], r), decode(StoredAs(cOut[1], r))>>
    /\ UNCHANGED cIn
    /\ UNCHANGED execVars
    /\ UNCHANGED batchVars
    /\ UNCHANGED raceVars
    /\ UNCHANGED sessVars

ApplyGetGroup == ReadBack("getGroup", GetGroupDecode)

ApplyListGroups == ReadBack("listGroups", ListGroupsDecode)

\* checkPasswordExpiry at the instant drawn: its now
ApplyNow == cIn.kind = "instant" /\ Gives("now", NowTicks(cIn.val))

\* convertADTimestamp on a stored timestamp
ApplyConvert == cIn.kind = "raw" /\ Gives("convertADTimestamp", convertADTimestamp(cIn.val))

\* convertADTimestamp on the now computed
ApplyConvertNow ==
    /\ cOps = <<"now">>
    /\ cOps' = <<"now", "convertADTimestamp">>
    /\ cOut' = Append(cOut, convertADTimestamp(cOut[1]))
    /\ UNCHANGED cIn
    /\ UNCHANGED execVars
    /\ UNCHANGED batchVars
    /\ UNCHANGED raceVars
    /\ UNCHANGED sessVars

\* checkPasswordExpiry on a pwdLastSet and a policy read, at an instant
ApplyExpiry ==
    /\ cIn.kind = "expiry"
    /\ Gives("checkPasswordExpiry", ExpiryNumbers(cIn.pwdLastSet, cIn.maxPwdAge, cIn.val))

\* checkPasswordExpiry on a client of the base DN drawn: the DN it searches
\* for the policy
ApplyDomainDn == cIn.kind = "base" /\ Gives("domainDn", DomainDnOf(cIn.val))

CodecNext ==
    \/ ApplyExpiry
    \/ ApplyDomainDn
    \/ ApplyNow
    \/ ApplyConvert
    \/ ApplyConvertNow
    \/ ApplyEscapeDN
    \/ ApplyValidateSAM
    \/ ApplyValidateUPN
    \/ ApplyCreateGroup
    \/ ApplyGetGroup
    \/ ApplyListGroups

SpecCodec == CodecInit /\ [][CodecNext]_vars

-----------------------------------------------------------------------------

(* ActiveDirectoryAdmin.execute: one bind, the items in turn on the shared  *)
(* client, one record per item, unbind on the way out                       *)

\* input items of one execute
MaxItems == 2

\* the operations the items of a batch ask for
BatchOps ==
    { [name |-> "enableUser", dn |-> UserDn],
      [name |-> "deleteGroup", dn |-> GroupDn],
      [name |-> "resetPassword", dn |-> UserDn, password |-> <<"T", "!", "2">>,
        forceChange |-> TRUE] }

RECURSIVE SeqsUpTo(_, _)
SeqsUpTo(S, n) ==
    IF n = 0 THEN {<< >>}
    ELSE SeqsUpTo(S, n - 1)
         \cup {Append(q, x) : q \in {r \in SeqsUpTo(S, n - 1) : Len(r) = n - 1}, x \in S}

Batches == SeqsUpTo(BatchOps, MaxItems)

\* the directory of a batch: the user and the group are there, so that the
\* second deletion of the group in one batch is the one the directory rejects
BatchDirs ==
    { (UserDn :> UserEntry(<<"5", "1", "4">>, Undefined, Undefined))
          @@ (GroupDn :> GroupEntry) @@ Tree(Undefined) }

\* a batch runs over a secured connection, so that each of its operations
\* reaches the directory
BatchInit ==
    /\ config = NewConfig(ServiceAccount, TRUE)
    /\ binds = << >>
    /\ op = [name |-> "none"]
    /\ dir \in BatchDirs
    /\ dir0 = dir
    /\ conn = "unbound"
    /\ pc = "idle"
    /\ call = NoCall
    /\ locals = NoLocals
    /\ sent = << >>
    /\ result = Pending
    /\ faults = 0
    /\ IdleCodec
    /\ items \in Batches
    /\ continueOnFail \in BOOLEAN
    /\ itemIndex = 0
    /\ returnData = << >>
    /\ exec = "bind"
    /\ raised = NoErr
    /\ wire = << >>
    /\ FreshSession
    /\ Alone

\* history entry: the operation of an item returned json or threw err
SettledEv(r) ==
    [ev |-> "settled", call |-> 0, try |-> 0, req |-> NoReq, ok |-> r.status = "ok",
     err |-> r.err, resp |-> NoResp, json |-> r.json]

\* the events of one item, tagged with its index
Tagged(evs, i) == [k \in DOMAIN evs |-> [item |-> i, e |-> evs[k]]]

\* variant: the items are taken last first
ItemAtReversed(its, i) == its[Len(its) - i]

\* this.getNodeParameter(..., itemIndex): the parameters of item itemIndex
ItemAt(its, i) == its[i + 1]

\* variant: a failed item never stops the batch
OnItemErrorContinues(continue) == "record"

\* the catch of the item: if (!continueOnFail) { unbind; throw } else a record
OnItemError(continue) == IF continue THEN "record" ELSE "throw"

\* error.message || 'Unknown error'
MessageOf(err) == IF err.msg = << >> THEN <<"Unknown", "error">> ELSE err.msg

FailureRecord(err, i) ==
    [json |-> [success |-> FALSE, error |-> MessageOf(err), itemIndex |-> i],
     pairedItem |-> i]

SuccessRecord(json, i) == [json |-> json, pairedItem |-> i]

\* variant: a failed bind is passed over when continue-on-failure is on
OnBindErrorContinues(continue) == IF continue THEN "loop" ELSE "throw"

\* the bind stands in the outer try, before the loop and outside the try of
\* the items: its error leaves execute whatever continue-on-failure says
OnBindError(continue) == "throw"

\* await client.bind(bindDn, password), in the try of execute: a failed bind
\* leaves through the finally
Bind ==
    /\ exec = "bind"
    /\ \/ /\ conn' = "bound"
          /\ binds' = Append(binds, BindEv("execute", FirstBindIdentity(config), TRUE))
          /\ exec' = "loop"
          /\ UNCHANGED <<raised, faults>>
       \/ /\ faults < MaxFaults
          /\ binds' = Append(binds, BindEv("execute", FirstBindIdentity(config), FALSE))
          /\ \E e \in BindErrors :
                /\ IF OnBindError(continueOnFail) = "throw"
                   THEN raised' = e /\ exec' = "finally"
                   ELSE raised' = raised /\ exec' = "loop"
                /\ faults' = faults + 1
                /\ UNCHANGED conn
    /\ UNCHANGED <<config, dir, dir0, op, pc, call, locals, sent, result>>
    /\ UNCHANGED <<items, continueOnFail, itemIndex, returnData, wire>>
    /\ UNCHANGED codecVars
    /\ UNCHANGED raceVars
    /\ UNCHANGED <<orphans, unbinds>>

\* the loop head with an item left: the item's operation is called and runs to
\* its first await
NextItem ==
    /\ exec = "loop"
    /\ pc = "idle"
    /\ itemIndex < Len(items)
    /\ op' = ItemAt(items, itemIndex)
    /\ dir0' = dir
    /\ Take(Start(config, ItemAt(items, itemIndex)))
    /\ UNCHANGED <<config, dir, conn, sent, faults>>
    /\ UNCHANGED batchVars
    /\ UNCHANGED codecVars
    /\ UNCHANGED raceVars
    /\ UNCHANGED sessVars

\* the awaited operation of the item returned or threw: returnData.push(result),
\* or the catch of the item
Collect ==
    /\ exec = "loop"
    /\ pc = "done"
    /\ wire' = wire \o Tagged(Append(sent, SettledEv(result)), itemIndex)
    /\ sent' = << >>
    /\ pc' = "idle"
    /\ call' = NoCall
    /\ IF result.status = "ok"
       THEN /\ returnData' = Append(returnData, SuccessRecord(result.json, itemIndex))
            /\ itemIndex' = itemIndex + 1
            /\ UNCHANGED <<exec, raised>>
       ELSE IF OnItemError(continueOnFail) = "record"
            THEN /\ returnData' = Append(returnData, FailureRecord(result.err, itemIndex))
                 /\ itemIndex' = itemIndex + 1
                 /\ UNCHANGED <<exec, raised>>
            ELSE /\ exec' = "catch"
                 /\ raised' = result.err
                 /\ UNCHANGED <<returnData, itemIndex>>
    /\ UNCHANGED <<config, dir, dir0, conn, op, locals, result, faults>>
    /\ UNCHANGED <<items, continueOnFail>>
    /\ UNCHANGED codecVars
    /\ UNCHANGED raceVars
    /\ UNCHANGED sessVars

\* the catch of the item, continue-on-failure off: await client.unbind(), then
\* throw error, which enters the finally
CatchUnbind ==
    /\ exec = "catch"
    /\ \E o \in CloseOutcomes(conn, MaxFaults - faults) :
          /\ unbinds' = Append(unbinds, UnbindEv("catch", conn, o, RequestsSoFar))
          /\ conn' = IF o.open THEN conn ELSE "unbound"
          /\ faults' = faults + o.fault
          /\ raised' = IF Unbind(o.err) = NoErr THEN raised ELSE Unbind(o.err)
    /\ exec' = "finally"
    /\ UNCHANGED <<config, dir, dir0, op, pc, call, locals, sent, result>>
    /\ UNCHANGED <<items, continueOnFail, itemIndex, returnData, wire, orphans, binds>>
    /\ UNCHANGED codecVars
    /\ UNCHANGED raceVars

\* the loop is over: return [returnData], which enters the finally
LoopEnd ==
    /\ exec = "loop"
    /\ pc = "idle"
    /\ itemIndex >= Len(items)
    /\ exec' = "finally"
    /\ UNCHANGED <<config, dir, dir0, conn, op, pc, call, locals, sent, result, faults>>
    /\ UNCHANGED <<items, continueOnFail, itemIndex, returnData, raised, wire>>
    /\ UNCHANGED codecVars
    /\ UNCHANGED raceVars
    /\ UNCHANGED sessVars

\* finally { await client.unbind() }: execute returns its records or lets the
\* exception out
FinallyUnbind ==
    /\ exec = "finally"
    /\ \E o \in CloseOutcomes(conn, MaxFaults - faults) :
          /\ unbinds' = Append(unbinds, UnbindEv("finally", conn, o, RequestsSoFar))
          /\ conn' = IF o.open THEN conn ELSE "unbound"
          /\ faults' = faults + o.fault
          /\ raised' = IF Unbind(o.err) = NoErr THEN raised ELSE Unbind(o.err)
    /\ exec' = IF raised' = NoErr THEN "returned" ELSE "thrown"
    /\ UNCHANGED <<config, dir, dir0, op, pc, call, locals, sent, result>>
    /\ UNCHANGED <<items, continueOnFail, itemIndex, returnData, wire, orphans, binds>>
    /\ UNCHANGED codecVars
    /\ UNCHANGED raceVars

BatchNext ==
    Bind \/ NextItem \/ Attempt \/ Reconnect \/ Collect \/ CatchUnbind \/ LoopEnd
    \/ FinallyUnbind

SpecBatch == BatchInit /\ [][BatchNext]_vars

-----------------------------------------------------------------------------

(* Reading the history *)

\* the events of primitive call n, of one kind
Evs(n, kind) == {i \in DOMAIN sent : sent[i].call = n /\ sent[i].ev = kind}

Attempts == {i \in DOMAIN sent : sent[i].ev = "attempt"}

Calls == 1..call.n

\* call n returned normally
Returned(n) == \E i \in Evs(n, "return") : sent[i].ok

\* call n threw
Threw(n) == \E i \in Evs(n, "return") : ~sent[i].ok

ReturnOf(n) == sent[CHOOSE i \in Evs(n, "return") : TRUE]

\* the request of call n, as first put on the wire
RequestOf(n) == sent[CHOOSE i \in Evs(n, "attempt") : sent[i].try = 1].req

\* the requests of the calls made so far, in call order
RECURSIVE RequestsUpTo(_)
RequestsUpTo(n) == IF n = 0 THEN << >> ELSE Append(RequestsUpTo(n - 1), RequestOf(n))

CallsMade == IF call.phase = "idle" THEN call.n ELSE call.n - 1

Done == pc = "done"

Succeeded == Done /\ result.status = "ok"

Failed == Done /\ result.status = "error"

-----------------------------------------------------------------------------
(* C1 *)

\* C1: every call of add, modify, search, deleteGroup or deleteOU puts its
\* request on the wire at most twice and reconnects at most once; when the
\* first attempt fails with a transport signal, a retry that succeeds gives the
\* call its result after exactly one reconnect, and a retry that fails leaves
\* the call with that second error, with no third attempt.
C1_RetryAtMostOnce ==
    \A n \in Calls :
        /\ Cardinality(Evs(n, "attempt")) <= 2
        /\ Cardinality(Evs(n, "reconnect")) <= 1
        /\ \A i \in Evs(n, "attempt") : \A j \in Evs(n, "attempt") :
              (i < j /\ ~sent[i].ok /\ IsTransportSignal(sent[i].err)) =>
                  /\ Cardinality({r \in Evs(n, "reconnect") : i < r /\ r < j}) = 1
                  /\ Cardinality(Evs(n, "return")) = 1
                  /\ \A r \in Evs(n, "return") :
                        /\ j < r
                        /\ sent[r].ok = sent[j].ok
                        /\ sent[j].ok => sent[r].resp = sent[j].resp
                        /\ ~sent[j].ok => sent[r].err = sent[j].err

\* a deleteGroup whose first attempt met a closed connection and whose retry
\* deleted the group
C1_Witness ==
    /\ op.name = "deleteGroup"
    /\ Succeeded
    /\ Cardinality(Evs(1, "attempt")) = 2
    /\ Cardinality(Evs(1, "reconnect")) = 1
    /\ ~Exists(dir, GroupDn)

-----------------------------------------------------------------------------
(* C2 *)

\* C2: a directory rejection of the first attempt of a call is never retried:
\* no reconnect, no second attempt, and the call throws that very error.
C2_RejectionNotRetried ==
    \A n \in Calls : \A i \in Evs(n, "attempt") :
        (sent[i].try = 1 /\ ~sent[i].ok /\ sent[i].err.kind = "rejection") =>
            /\ Evs(n, "reconnect") = {}
            /\ Evs(n, "attempt") = {i}
            /\ call.phase # "reconnect"
            /\ \A r \in Evs(n, "return") : ~sent[r].ok /\ sent[r].err = sent[i].err

-----------------------------------------------------------------------------
(* C3 *)

ValidCreate(o) == validateSAMAccountName(o.sam).valid /\ validateUPN(o.upn).valid

PasswordOperation ==
    \/ op.name = "resetPassword"
    \/ op.name = "createUser" /\ ValidCreate(op)

\* C3: over a transport configured unsecured, create user and reset password
\* end in the policy error and put no request at all on the wire.
C3_UnsecuredSendsNothing ==
    (PasswordOperation /\ config.isSecure = FALSE) =>
        /\ sent = << >>
        /\ Done => Failed /\ result.err = PolicyError

-----------------------------------------------------------------------------
(* C4 *)

\* C4: create user with an invalid sAMAccountName or an invalid UPN ends in a
\* validation error and sends no request to the directory.
C4_InvalidSendsNothing ==
    (op.name = "createUser" /\ ~ValidCreate(op)) =>
        /\ sent = << >>
        /\ call.phase = "idle"
        /\ dir = dir0
        /\ Done => Failed /\ result.err.kind = "validation"

\* create user ended on a UPN with two @ and a valid sAMAccountName
C4_Witness ==
    /\ op.name = "createUser"
    /\ Done
    /\ op.sam = <<"j", "r">>
    /\ op.upn = <<"j", "@", "@", "c", ".", "t">>
    /\ result.err = ValidationError("Invalid UPN format")
    /\ sent = << >>

-----------------------------------------------------------------------------
(* C5 *)

IsAttempt(e) == e.ev = "attempt"

\* the requests put on the wire, in order
Wire == LET a == SelectSeq(sent, IsAttempt) IN [i \in DOMAIN a |-> a[i].req]

\* no request failed and no reconnect happened
FaultFree == \A i \in DOMAIN sent : sent[i].ok /\ sent[i].ev # "reconnect"

\* the escaped CN of each name of CNs, written out
EscapedCn(cn) ==
    CASE cn = <<"j", "r">> -> <<"j", "r">>
      [] cn = <<"a", ",", "b">> -> <<"a", "\\", ",", "b">>
      [] cn = <<" ", "J", " ", "R", " ">> -> <<"\\", " ", "J", " ", "R", "\\", " ">>

QuotedUtf16(pw) ==
    CASE pw = <<"T", "!", "2">> ->
            <<"\"", "NUL", "T", "NUL", "!", "NUL", "2", "NUL", "\"", "NUL">>

ExpectedDn(o) == <<"C", "N", "=">> \o EscapedCn(o.cn) \o <<",">> \o o.parentOuDn

\* the documented requests of create user, in order
ExpectedCreate(o) ==
    <<AddReq(ExpectedDn(o), CreateUserEntry(o)),
      ModifyReq(ExpectedDn(o), <<Replace("unicodePwd", QuotedUtf16(o.password))>>)>>
    \o (IF o.pwdMustChange
        THEN <<ModifyReq(ExpectedDn(o), <<Replace("pwdLastSet", <<"0">>)>>)>>
        ELSE << >>)
    \o (IF o.enableImmediately
        THEN <<BaseSearch(ExpectedDn(o), {"userAccountControl"}),
               ModifyReq(ExpectedDn(o),
                         <<Replace("userAccountControl", <<"5", "1", "2">>)>>)>>
        ELSE << >>)

\* C5: a fault-free create user puts on the wire exactly the add (with
\* userAccountControl 514), the unicodePwd modify, the pwdLastSet modify iff
\* pwdMustChange, and the read and modify of enable iff enableImmediately, in
\* that order, each once; the success envelope comes only after every requested
\* step returned.
C5_CreateUserSequence ==
    op.name = "createUser" =>
        /\ (Done /\ FaultFree /\ ValidCreate(op) /\ config.isSecure) =>
              /\ Succeeded
              /\ Wire = ExpectedCreate(op)
        /\ Succeeded =>
              /\ RequestsUpTo(call.n) = ExpectedCreate(op)
              /\ \A n \in Calls : Returned(n)
              /\ Attr(RequestOf(1).entry, "userAccountControl") = <<"5", "1", "4">>
              /\ result.json.enabled = op.enableImmediately
              /\ result.json.mustChangePassword = op.pwdMustChange

\* a fault-free create user with both options, for a CN that needs escaping
C5_Witness ==
    /\ op.name = "createUser"
    /\ Succeeded
    /\ FaultFree
    /\ op.cn = <<"a", ",", "b">>
    /\ op.pwdMustChange
    /\ op.enableImmediately
    /\ Len(Wire) = 5
    /\ Attr(dir[ExpectedDn(op)], "userAccountControl") = <<"5", "1", "2">>
    /\ Attr(dir[ExpectedDn(op)], "pwdLastSet") = <<"0">>

-----------------------------------------------------------------------------
(* C6 *)

\* the directory after it applied req
Applied(d, req) == (CHOOSE r \in Serve(d, req) : TRUE).dir

RECURSIVE Effects(_, _)
Effects(d, reqs) ==
    IF reqs = << >> THEN d ELSE Effects(Applied(d, Head(reqs)), Tail(reqs))

\* the requests of the calls that returned normally, in call order
RECURSIVE ReturnedRequests(_)
ReturnedRequests(n) ==
    IF n = 0 THEN << >>
    ELSE ReturnedRequests(n - 1) \o (IF Returned(n) THEN <<RequestOf(n)>> ELSE << >>)

ExpectedReset(o) ==
    <<ModifyReq(o.dn, <<Replace("unicodePwd", QuotedUtf16(o.password))>>)>>
    \o (IF o.forceChange
        THEN <<ModifyReq(o.dn, <<Replace("pwdLastSet", <<"0">>)>>)>> ELSE << >>)

ExpectedSteps(o) == IF o.name = "createUser" THEN ExpectedCreate(o) ELSE ExpectedReset(o)

\* create user failed after its add returned, or reset password failed after
\* its password modify returned
PartialFailure ==
    /\ op.name \in {"createUser", "resetPassword"}
    /\ Failed
    /\ call.n >= 1
    /\ Returned(1)

\* no delete, no request outside the documented steps, nothing after the step
\* that failed, and the error of that step is what the operation throws
NoRollback ==
    /\ \A i \in Attempts : sent[i].req.kind # "del"
    /\ IsPrefix(RequestsUpTo(call.n), ExpectedSteps(op))
    /\ \A n \in Calls : n < call.n => Returned(n)
    /\ Threw(call.n) => result.err = ReturnOf(call.n).err
    /\ Returned(call.n) => result.err = PolicyError

\* C6 as claimed: after a partial failure nothing is rolled back and the
\* directory holds exactly the effects of the steps that succeeded.
C6_ExactPrefix ==
    PartialFailure =>
        /\ NoRollback
        /\ dir = Effects(dir0, ReturnedRequests(call.n))

\* C6 as amended: after a partial failure nothing is rolled back, and the
\* directory holds the effects of the steps that succeeded, or those and the
\* effect of the failed step (applied before its transport fault was reported).
C6_PrefixOrFailedStep ==
    PartialFailure =>
        /\ NoRollback
        /\ \/ dir = Effects(dir0, ReturnedRequests(call.n))
           \/ /\ Threw(call.n)
              /\ dir = Effects(dir0, RequestsUpTo(call.n))

\* create user failed at its force-change step: the user is left created,
\* disabled, with its password set
C6_Witness ==
    /\ op.name = "createUser"
    /\ PartialFailure
    /\ call.n = 3
    /\ Threw(3)
    /\ op.enableImmediately
    /\ Exists(dir, ExpectedDn(op))
    /\ Attr(dir[ExpectedDn(op)], "userAccountControl") = <<"5", "1", "4">>
    /\ Attr(dir[ExpectedDn(op)], "unicodePwd") # Undefined
    /\ Attr(dir[ExpectedDn(op)], "pwdLastSet") = Undefined

-----------------------------------------------------------------------------
(* C7 *)

\* the stored value as the claim reads it: 512 only for an absent or
\* unparseable attribute
StoredOr512(raw) == IF ParseInt(raw).nan THEN 512 ELSE ParseInt(raw).val

\* C7 as claimed: enableUser and disableUser make one search, then one modify
\* that replaces userAccountControl by the stored value v with bit 0x0002
\* cleared (set, for disable) and every other bit as in v, 512 standing for v
\* only when the attribute is absent or unparseable.
C7_TogglePreservesBits ==
    (op.name \in {"enableUser", "disableUser"} /\ Succeeded) =>
        LET v == StoredOr512(Attr(dir0[op.dn], "userAccountControl"))
            want == IF op.name = "enableUser" THEN ClearBit(v, 2) ELSE SetBit(v, 2)
        IN /\ RequestsUpTo(call.n) =
                  <<BaseSearch(op.dn, {"userAccountControl"}),
                    ModifyReq(op.dn, <<Replace("userAccountControl", ToStr(want))>>)>>
           /\ Attr(dir[op.dn], "userAccountControl") = ToStr(want)

\* what holds of the code: the same, with 512 standing for a stored 0 as well
C7_ExceptStoredZero ==
    (op.name \in {"enableUser", "disableUser"} /\ Succeeded) =>
        LET raw == Attr(dir0[op.dn], "userAccountControl")
            v == IF raw = <<"0">> THEN 512 ELSE StoredOr512(raw)
            want == IF op.name = "enableUser" THEN ClearBit(v, 2) ELSE SetBit(v, 2)
        IN /\ RequestsUpTo(call.n) =
                  <<BaseSearch(op.dn, {"userAccountControl"}),
                    ModifyReq(op.dn, <<Replace("userAccountControl", ToStr(want))>>)>>
           /\ Attr(dir[op.dn], "userAccountControl") = ToStr(want)

-----------------------------------------------------------------------------
(* C8, under SpecToggle *)

BitmaskOf(raw) == ParseInt(raw).val

StartsAsBitmask == ~ParseInt(cIn).nan

-----------------------------------------------------------------------------
(* C9 *)

NeverLocked(lockoutTime) == lockoutTime = Undefined \/ lockoutTime = <<"0">>

ModifyAttempts == {i \in Attempts : sent[i].req.kind = "modify"}

ClearLockout(dn) == ModifyReq(dn, <<Replace("lockoutTime", <<"0">>)>>)

\* C9: unlock account sends no modify and reports wasLocked:false when the
\* lockoutTime it read is absent or "0"; otherwise it makes exactly one modify
\* call, replacing lockoutTime by "0", and reports wasLocked:true, unlocked:true.
C9_UnlockWritesOnlyWhenLocked ==
    (op.name = "unlockAccount" /\ CallsMade >= 2 /\ Returned(2)
        /\ ReturnOf(2).resp.searchEntries # << >>) =>
        LET read == Attr(ReturnOf(2).resp.searchEntries[1].attrs, "lockoutTime")
        IN IF NeverLocked(read)
           THEN /\ ModifyAttempts = {}
                /\ Succeeded
                /\ result.json.wasLocked = FALSE
                /\ dir = dir0
           ELSE /\ \A i \in ModifyAttempts :
                      sent[i].call = 3 /\ sent[i].req = ClearLockout(UserDn)
                /\ call.n = 3
                /\ (Succeeded /\ FaultFree) => Cardinality(ModifyAttempts) = 1
                /\ Succeeded =>
                      /\ Returned(3)
                      /\ result.json.wasLocked
                      /\ result.json.unlocked
                      /\ Attr(dir[UserDn], "lockoutTime") = <<"0">>

\* a locked account (lockoutTime 5) unlocked by one modify
C9_Witness ==
    /\ op.name = "unlockAccount"
    /\ Succeeded
    /\ Attr(dir0[UserDn], "lockoutTime") = <<"5">>
    /\ Cardinality(ModifyAttempts) = 1
    /\ result.json.wasLocked
    /\ Attr(dir[UserDn], "lockoutTime") = <<"0">>

-----------------------------------------------------------------------------
(* C10 *)

\* a search of the domain root for the policy
PolicySearches ==
    {i \in Attempts : sent[i].req.kind = "search" /\ sent[i].req.scope = "base"}

NoPolicy(maxPwdAge) ==
    maxPwdAge = Undefined \/ maxPwdAge = <<"0">> \/ maxPwdAge = Sentinel

\* C10: checkPasswordExpiry answers passwordNeverExpires:true for a user with
\* bit 0x10000, else mustChangePassword:true for pwdLastSet "0", both without
\* any search of the domain root; only otherwise does it search the domain
\* root, and a maxPwdAge that is absent, "0" or the sentinel gives the
\* no-policy result.
C10_ExpiryDecisionTree ==
    (op.name = "checkPasswordExpiry" /\ CallsMade >= 1 /\ Returned(1)
        /\ ReturnOf(1).resp.searchEntries # << >>) =>
        LET user == ReturnOf(1).resp.searchEntries[1].attrs
            uac == Attr(user, "userAccountControl")
            never == ~ParseInt(uac).nan /\ HasBit(ParseInt(uac).val, DONT_EXPIRE_PASSWORD)
            mustChange == Attr(user, "pwdLastSet") = <<"0">>
        IN /\ never =>
                 /\ PolicySearches = {}
                 /\ Succeeded
                 /\ result.json.passwordNeverExpires
           /\ (~never /\ mustChange) =>
                 /\ PolicySearches = {}
                 /\ Succeeded
                 /\ ~result.json.passwordNeverExpires
                 /\ result.json.mustChangePassword
           /\ (~never /\ ~mustChange) =>
                 /\ call.n = 2
                 /\ call.phase # "idle" => call.req = BaseSearch(DomainDn, {"maxPwdAge"})
                 /\ \A i \in PolicySearches :
                       sent[i].call = 2 /\ sent[i].req = BaseSearch(DomainDn, {"maxPwdAge"})
                 /\ Done => PolicySearches # {}
                 /\ (Done /\ Returned(2) /\ ReturnOf(2).resp.searchEntries # << >>
                        /\ NoPolicy(Attr(ReturnOf(2).resp.searchEntries[1].attrs,
                                         "maxPwdAge"))) =>
                        /\ Succeeded
                        /\ result.json.message = "No password expiration policy configured"
                        /\ ~result.json.expired

\* a user with no flag and a set password, answered "no policy" after the
\* search of the domain root found the sentinel
C10_Witness ==
    /\ op.name = "checkPasswordExpiry"
    /\ Succeeded
    /\ Attr(dir0[UserDn], "userAccountControl") = <<"5", "1", "2">>
    /\ Attr(dir0[UserDn], "pwdLastSet") = <<"5">>
    /\ Attr(dir0[DomainDn], "maxPwdAge") = Sentinel
    /\ Cardinality(PolicySearches) = 1
    /\ Returned(2)
    /\ result.json.message = "No password expiration policy configured"

-----------------------------------------------------------------------------
(* C11 *)

\* the second primitive call of checkPasswordExpiry, the search of the domain
\* root, threw: a rejection, a failed reconnect, or a failed retry
PolicyLookupFailed ==
    /\ op.name = "checkPasswordExpiry"
    /\ Done
    /\ call.n = 2
    /\ Threw(2)

\* C11: when the search of the domain root fails, checkPasswordExpiry still
\* returns: a result with expired false and an error note; when the search of
\* the user finds no entry, it throws the not-found error.
C11_PolicyLookupDegrades ==
    /\ PolicyLookupFailed =>
          /\ Succeeded
          /\ result.json.success
          /\ result.json.expired = FALSE
          /\ result.json.error = "Unable to retrieve domain password policy"
    /\ (op.name = "checkPasswordExpiry" /\ Done /\ call.n = 1 /\ Returned(1)
            /\ ReturnOf(1).resp.searchEntries = << >>) =>
          /\ Failed
          /\ result.err = UserNotFound(op.sam)

\* the domain search hit a transport fault and the rebind failed
C11_Witness ==
    /\ PolicyLookupFailed
    /\ Evs(2, "reconnect") # {}
    /\ conn = "unbound"
    /\ Succeeded
    /\ result.json.error = "Unable to retrieve domain password policy"

-----------------------------------------------------------------------------
(* C12, C13 *)

\* the user is among the member values of the group in directory d
InGroup(d, o) == Exists(d, o.groupDn) /\ HasValue(d[o.groupDn], "member", o.userDn)

\* the membership check got its answer: the read of the group returned
CheckAnswered == call.n >= 1 /\ Returned(1)

MemberWrites == {i \in Attempts : sent[i].req.kind = "modify"}

\* C12: add member, once the membership check has answered: for a user already
\* in the group, no modify is sent, and the result is alreadyMember, skipped
\* with skipIfMember, an error without it; for a user not in the group the only
\* modify sent adds the user DN to member, once, and success reports added.
C12_AddMember ==
    (op.name = "addGroupMember" /\ CheckAnswered) =>
        IF InGroup(dir0, op)
        THEN /\ MemberWrites = {}
             /\ Done
             /\ dir = dir0
             /\ IF op.skip
                THEN /\ Succeeded
                     /\ result.json.alreadyMember
                     /\ result.json.skipped
                ELSE Failed /\ result.err = AlreadyMember
        ELSE /\ call.n = 2
             /\ \A i \in MemberWrites :
                   /\ sent[i].call = 2
                   /\ sent[i].req = ModifyReq(op.groupDn, <<AddValue("member", op.userDn)>>)
             /\ (Done /\ FaultFree) => Cardinality(MemberWrites) = 1
             /\ Succeeded =>
                   /\ Returned(2)
                   /\ result.json.added
                   /\ InGroup(dir, op)

\* the user is stored in member in another case: found, and skipped
C12_Witness ==
    /\ op.name = "addGroupMember"
    /\ op.skip
    /\ Exists(dir0, op.groupDn)
    /\ Values(dir0[op.groupDn], "member") = <<StoredUserDn>>
    /\ Succeeded
    /\ Returned(1)
    /\ call.n = 1
    /\ result.json.alreadyMember
    /\ Cardinality(Attempts) = 1

\* C13: remove member, once the membership check has answered: for a user not
\* in the group, no modify is sent, and the result is notMember, skipped with
\* skipIfNotMember, an error without it; for a user in the group the only
\* modify sent deletes the user DN from member, once, and success reports
\* removed.
C13_RemoveMember ==
    (op.name = "removeGroupMember" /\ CheckAnswered) =>
        IF ~InGroup(dir0, op)
        THEN /\ MemberWrites = {}
             /\ Done
             /\ dir = dir0
             /\ IF op.skip
                THEN /\ Succeeded
                     /\ result.json.notMember
                     /\ result.json.skipped
                ELSE Failed /\ result.err = NotMember
        ELSE /\ call.n = 2
             /\ \A i \in MemberWrites :
                   /\ sent[i].call = 2
                   /\ sent[i].req =
                          ModifyReq(op.groupDn, <<DeleteValue("member", op.userDn)>>)
             /\ (Done /\ FaultFree) => Cardinality(MemberWrites) = 1
             /\ Succeeded =>
                   /\ Returned(2)
                   /\ result.json.removed
                   /\ ~InGroup(dir, op)

\* the user removed from a group of two members by one modify
C13_Witness ==
    /\ op.name = "removeGroupMember"
    /\ Exists(dir0, op.groupDn)
    /\ Values(dir0[op.groupDn], "member") = <<OtherDn, UserDn>>
    /\ Succeeded
    /\ call.n = 2
    /\ Returned(2)
    /\ result.json.removed
    /\ Cardinality(MemberWrites) = 1
    /\ Values(dir[op.groupDn], "member") = <<OtherDn>>

-----------------------------------------------------------------------------
(* C22: the target of a read is absent *)

\* the operations that look their target up first, and how each names it
ByDn == {"enableUser", "disableUser", "getGroup", "getOU"}

BySam == {"unlockAccount", "getUserGroups", "getUserActivity", "checkPasswordExpiry"}

TargetOf(o) == IF o.name \in ByDn THEN o.dn ELSE o.sam

\* the words of the not-found message of each operation
NotFoundWords(o) ==
    CASE o.name = "getGroup" -> <<"Group", "not", "found">>
      [] o.name = "getOU" -> <<"Organizational", "Unit", "not", "found">>
      [] OTHER -> <<"User", "not", "found">>

\* the search for the target returned, with no entry
TargetAbsent ==
    /\ op.name \in ByDn \cup BySam
    /\ call.n >= 1
    /\ Returned(1)
    /\ ReturnOf(1).resp.searchEntries = << >>

\* C22: when the search for the target returns no entry, each of the eight
\* operations ends with a not-found error that names the DN or the account
\* name it was given, and no modify request is sent.
C22_AbsentTargetNotFound ==
    TargetAbsent =>
        /\ Failed
        /\ result.err.kind = "notfound"
        /\ result.err.msg = NotFoundWords(op)
        /\ result.err.about = TargetOf(op)
        /\ call.n = 1
        /\ \A i \in Attempts : sent[i].req.kind = "search"
        /\ dir = dir0

\* getUserActivity of an account name no user has
C22_Witness ==
    /\ op.name = "getUserActivity"
    /\ TargetAbsent
    /\ Failed
    /\ result.err = UserNotFound(UserSam)
    /\ Cardinality(Attempts) = 1

\* getOU of a DN that names no entry
C22_OuAbsent ==
    /\ op.name = "getOU"
    /\ TargetAbsent
    /\ result.err = OuNotFound(OuDn)

\* getGroup of a DN that names no entry
C22_GroupAbsent ==
    /\ op.name = "getGroup"
    /\ TargetAbsent
    /\ result.err = GroupNotFound(GroupDn)

\* the activity of a user found: the times decoded
C22_ActivityFound ==
    /\ op.name = "getUserActivity"
    /\ op.activityType = "all"
    /\ Succeeded
    /\ result.json.loginInfo.lastLogon =
           <<"1", "7", "6", "2", "3", "0", "0", "8", "0", "0", "0", "0", "0">>
    /\ result.json.loginInfo.lockoutTime = Null
    /\ result.json.passwordInfo.passwordNeverExpires
    /\ result.json.accountInfo.isEnabled

\* a group found whose groupType is stored unsigned
C22_GroupFound ==
    /\ op.name = "getGroup"
    /\ Succeeded
    /\ result.json.groupTypeValue = <<"2", "1", "4", "7", "4", "8", "3", "6", "5", "0">>
    /\ result.json.groupType = "security"
    /\ result.json.scope = "global"

-----------------------------------------------------------------------------

(* C23: the read of the group fails *)

MemberOp == op.name \in {"addGroupMember", "removeGroupMember"}

\* the read of the group was rejected or lost for good, or found no entry
GroupReadFailed ==
    /\ call.n >= 1
    /\ \/ Threw(1)
       \/ Returned(1) /\ ReturnOf(1).resp.searchEntries = << >>

\* C23: add member and remove member whose read of the group failed (group
\* absent, request rejected, transport fault not recovered) end in an error:
\* no success envelope, and for remove no notMember, skipped.
C23_ReadFailureSurfaces ==
    (MemberOp /\ GroupReadFailed /\ Done) => Failed

\* the read of an existing group is rejected: remove member reports the user
\* as not a member and skips
C23_SkippedUnread ==
    /\ op.name = "removeGroupMember"
    /\ InGroup(dir0, op)
    /\ Threw(1)
    /\ Succeeded
    /\ result.json.notMember
    /\ result.json.skipped
    /\ InGroup(dir, op)

\* the read of the group is rejected: add member goes on to its modify and
\* reports the user added
C23_AddedUnread ==
    /\ op.name = "addGroupMember"
    /\ Threw(1)
    /\ Succeeded
    /\ result.json.added

\* when the read failed, the error of the read itself is never what is thrown
C23_ReadErrorNeverThrown ==
    (MemberOp /\ call.n >= 1 /\ Threw(1) /\ Failed /\ call.n = 1) =>
        result.err = NotMember

-----------------------------------------------------------------------------

(* C14 .. C17: getUserGroups *)

GroupsCall == op.name = "getUserGroups"

\* the groups returned
ResultGroups == result.json.groups

ResultDn(i) == ResultGroups[i].distinguishedName

\* the user's direct groups, and the direct parents of those, in the directory
DirectGroups(d) ==
    IF Exists(d, UserDn)
    THEN {Values(d[UserDn], "memberOf")[i] : i \in 1..Len(Values(d[UserDn], "memberOf"))}
    ELSE {}

ParentsOf(d, g) ==
    IF Exists(d, g)
    THEN {Values(d[g], "memberOf")[i] : i \in 1..Len(Values(d[g], "memberOf"))}
    ELSE {}

DirectParents(d) == UNION {ParentsOf(d, g) : g \in DirectGroups(d)}

\* the DNs of the group lookups put on the wire
GroupLookups == {sent[i].req.dn : i \in {j \in Attempts : sent[j].req.scope = "base"}}

\* C14: no two entries of the list getUserGroups returns have the same
\* distinguishedName.
C14_NoDuplicateDn ==
    (GroupsCall /\ Succeeded) =>
        \A i \in 1..Len(ResultGroups) : \A j \in 1..Len(ResultGroups) :
            i # j => ResultDn(i) # ResultDn(j)

\* within one extra hop of the user: a direct group, or a direct parent of one
WithinOneHop(d) == DirectGroups(d) \cup DirectParents(d)

MarkedInherited(dn) ==
    \E i \in 1..Len(ResultGroups) :
        /\ ResultDn(i) = dn
        /\ "inherited" \in DOMAIN ResultGroups[i]
        /\ ResultGroups[i].inherited

Returns(dn) == \E i \in 1..Len(ResultGroups) : ResultDn(i) = dn

\* C16: in a fault-free call with includeNested, for both detail levels, every
\* existing direct parent of a direct group is returned, marked inherited unless
\* it is a direct group as well; without includeNested only direct groups are
\* looked up and returned.
C16_InheritedParents ==
    (GroupsCall /\ Succeeded /\ FaultFree) =>
        IF op.includeNested
        THEN \A p \in DirectParents(dir0) :
                 Exists(dir0, p) =>
                     /\ Returns(p)
                     /\ p \notin DirectGroups(dir0) => MarkedInherited(p)
        ELSE /\ GroupLookups \subseteq DirectGroups(dir0)
             /\ \A i \in 1..Len(ResultGroups) :
                   /\ ResultDn(i) \in DirectGroups(dir0)
                   /\ "inherited" \notin DOMAIN ResultGroups[i]

\* what holds of the code: the same with full details only
C16_InheritedParentsWhenFull ==
    (GroupsCall /\ Succeeded /\ FaultFree) =>
        /\ (op.includeNested /\ op.fullDetails) =>
              \A p \in DirectParents(dir0) :
                  Exists(dir0, p) =>
                      /\ Returns(p)
                      /\ p \notin DirectGroups(dir0) => MarkedInherited(p)
        /\ (op.includeNested /\ ~op.fullDetails) =>
              GroupLookups \subseteq DirectGroups(dir0)
        /\ ~op.includeNested =>
              /\ GroupLookups \subseteq DirectGroups(dir0)
              /\ \A i \in 1..Len(ResultGroups) :
                    /\ ResultDn(i) \in DirectGroups(dir0)
                    /\ "inherited" \notin DOMAIN ResultGroups[i]

\* the DNs of the entries that the group lookups returned, in call order
RECURSIVE Resolved(_)
Resolved(n) ==
    IF n <= 1 THEN << >>
    ELSE Resolved(n - 1)
         \o (IF Returned(n) /\ ReturnOf(n).resp.searchEntries # << >>
             THEN <<ReturnOf(n).resp.searchEntries[1].dn>> ELSE << >>)

UserFound == call.n >= 1 /\ Returned(1) /\ ReturnOf(1).resp.searchEntries # << >>

\* C17: once the user is found, getUserGroups never fails: a group whose
\* lookup throws or returns no entry is left out, and the result lists exactly
\* the groups whose lookups returned an entry; a user search that returns no
\* entry raises the not-found error.
C17_UnresolvedGroupsSkipped ==
    GroupsCall =>
        /\ (UserFound /\ Done) =>
              /\ Succeeded
              /\ Len(ResultGroups) = Len(Resolved(call.n))
              /\ \A i \in 1..Len(ResultGroups) : ResultDn(i) = Resolved(call.n)[i]
        /\ (Done /\ call.n = 1 /\ Returned(1) /\ ReturnOf(1).resp.searchEntries = << >>) =>
              Failed /\ result.err = UserNotFound(op.sam)

\* the lookup of x, which names no entry, threw; g and its parent are still
\* returned
C17_Witness ==
    /\ GroupsCall
    /\ UserFound
    /\ Succeeded
    /\ Values(dir0[UserDn], "memberOf") = <<GroupX, GroupG>>
    /\ Threw(2)
    /\ Len(ResultGroups) = 2
    /\ ResultDn(1) = GroupG
    /\ ResultDn(2) = GroupP

-----------------------------------------------------------------------------
(* C20: several attributes of one DN changed by one action *)

ChangesSeveral == op.name \in {"setAttributes", "modifyGroup", "modifyOU"}

\* all the changes the action was asked to make
AllChanges ==
    IF op.name = "setAttributes" THEN ChangesOf(op.attributes) ELSE ReplaceAll(op.attributes)

\* the modify calls the action has issued
ModifyCalls == {sent[i].call : i \in {j \in Attempts : sent[j].req.kind = "modify"}}

\* every modify attempt carries all the changes, one call makes them, and the
\* entry is as it was or has all the changes
OneAtomicModify ==
    /\ \A i \in Attempts : sent[i].req = ModifyReq(op.dn, AllChanges)
    /\ Cardinality(ModifyCalls) <= 1
    /\ Succeeded => Cardinality(ModifyCalls) = 1
    /\ Exists(dir0, op.dn) =>
          /\ Exists(dir, op.dn)
          /\ dir[op.dn] \in {dir0[op.dn], ApplyChanges(dir0[op.dn], AllChanges)}

\* C20: a logical action that changes several attributes of one DN (user set
\* attributes, modify group, modify OU) sends exactly one modify request that
\* carries all the changes, so the entry gets all of them or none
C20_OneAtomicModify == ChangesSeveral => OneAtomicModify

\* what holds: modify group and modify OU send one modify with all the changes
C20_GroupAndOuAtomic == op.name \in {"modifyGroup", "modifyOU"} => OneAtomicModify

\* modify group changed two attributes of an existing group by one request
C20_GroupChanged ==
    /\ op.name = "modifyGroup"
    /\ Succeeded
    /\ Len(AllChanges) = 2
    /\ Exists(dir0, op.dn)
    /\ dir[op.dn] # dir0[op.dn]

\* set attributes left the entry with the first change and without the second
C20_PartlyApplied ==
    /\ op.name = "setAttributes"
    /\ Failed
    /\ Len(AllChanges) = 2
    /\ Exists(dir0, op.dn)
    /\ Exists(dir, op.dn)
    /\ dir[op.dn] = ApplyChange(dir0[op.dn], AllChanges[1])
    /\ dir[op.dn] # dir0[op.dn]

-----------------------------------------------------------------------------
(* C18, C19: the items of one execute *)

\* every event of the batch so far, in the order it happened
Log == wire \o Tagged(sent, itemIndex)

\* the positions of a log where item i settled
SettledIn(L, i) == {k \in DOMAIN L : L[k].item = i /\ L[k].e.ev = "settled"}

SettlementIn(L, i) == L[CHOOSE k \in SettledIn(L, i) : TRUE].e

FailedIn(L, i) == SettledIn(L, i) # {} /\ ~SettlementIn(L, i).ok

\* the requests put on the wire for item i
RequestsIn(L, i) == {k \in DOMAIN L : L[k].item = i /\ L[k].e.ev = "attempt"}

ItemFailed(i) == FailedIn(Log, i)

RequestsAt(i) == RequestsIn(Log, i)

\* C18: with continue-on-failure, an item whose operation fails gives exactly
\* one record {success: false, error, itemIndex} at its position and the later
\* items are still processed: the output has one record per input item, in
\* input order; without it, the first failing item raises its error and no
\* later item puts a request on the wire.
C18_BatchFailurePolicy ==
    LET L == Log
    IN /\ \A k \in 1..Len(returnData) :
             /\ returnData[k].pairedItem = k - 1
             /\ Cardinality(SettledIn(L, k - 1)) = 1
             /\ FailedIn(L, k - 1) =>
                   returnData[k].json = [success |-> FALSE,
                                         error |-> SettlementIn(L, k - 1).err.msg,
                                         itemIndex |-> k - 1]
             /\ ~FailedIn(L, k - 1) => returnData[k].json = SettlementIn(L, k - 1).json
       /\ (continueOnFail /\ conn = "bound") =>
             /\ raised = NoErr
             /\ \A i \in 0..(Len(items) - 1) :
                   SettledIn(L, i) # {} => Len(returnData) > i
       /\ (continueOnFail /\ exec = "returned") => Len(returnData) = Len(items)
       /\ ~continueOnFail =>
             \A i \in 0..(Len(items) - 1) :
                 FailedIn(L, i) =>
                     /\ exec \in {"catch", "finally", "thrown"}
                     /\ raised = SettlementIn(L, i).err
                     /\ Len(returnData) = i
                     /\ \A k \in DOMAIN L : L[k].item <= i
       /\ exec = "returned" => raised = NoErr

\* the first item failed and has its failure record, the second was still
\* carried out
C18_Witness ==
    /\ continueOnFail
    /\ exec = "returned"
    /\ Len(items) = 2
    /\ Len(returnData) = 2
    /\ ItemFailed(0)
    /\ returnData[1].json.success = FALSE
    /\ returnData[1].json.itemIndex = 0
    /\ ~ItemFailed(1)
    /\ RequestsAt(1) # {}

\* the first item failed, the exception left execute and the second item sent
\* nothing
C18_Aborted ==
    /\ ~continueOnFail
    /\ exec = "thrown"
    /\ Len(items) = 2
    /\ ItemFailed(0)
    /\ RequestsAt(0) # {}
    /\ returnData = << >>

\* what a request is for: its kind, its DN, and the attribute a modify writes
Shape(req) ==
    [kind |-> req.kind, dn |-> req.dn,
     type |-> IF req.kind = "modify" THEN req.changes[1].type ELSE ""]

\* the documented steps of the operations of BatchOps, in order
Steps(o) ==
    CASE o.name = "enableUser" ->
            <<[kind |-> "search", dn |-> o.dn, type |-> ""],
              [kind |-> "modify", dn |-> o.dn, type |-> "userAccountControl"]>>
      [] o.name = "deleteGroup" -> <<[kind |-> "del", dn |-> o.dn, type |-> ""]>>
      [] o.name = "resetPassword" ->
            <<[kind |-> "modify", dn |-> o.dn, type |-> "unicodePwd"],
              [kind |-> "modify", dn |-> o.dn, type |-> "pwdLastSet"]>>

\* attempt k of a log comes before attempt l in the steps of their item
InStepOrder(L, k, l) ==
    \/ L[k].e.call < L[l].e.call
    \/ L[k].e.call = L[l].e.call /\ L[k].e.try < L[l].e.try

\* C19: in a batch on one session the requests go out one at a time: every
\* request of item i, reconnects and retries included, is over before any
\* request of item i+1 is sent, and the requests of one item are sent in the
\* documented order of its steps.
C19_OneRequestAtATime ==
    LET L == Log
        n == Len(L)
        att == {k \in 1..n : L[k].e.ev = "attempt"}
    IN /\ n > 0 => L[1].item = 0
       /\ \A k \in 1..(n - 1) :
             /\ L[k].item <= L[k + 1].item
             /\ L[k].item < L[k + 1].item =>
                   /\ L[k].e.ev = "settled"
                   /\ L[k + 1].item = L[k].item + 1
       /\ \A k \in att :
             /\ L[k].e.call \in 1..Len(Steps(items[L[k].item + 1]))
             /\ Shape(L[k].e.req) = Steps(items[L[k].item + 1])[L[k].e.call]
             /\ k < n =>
                   /\ L[k + 1].item = L[k].item
                   /\ L[k + 1].e.call = L[k].e.call
                   /\ L[k + 1].e.ev \in {"reconnect", "return"}
             /\ \A l \in att :
                   (k < l /\ L[k].item = L[l].item) =>
                       /\ InStepOrder(L, k, l)
                       /\ \E m \in (k + 1)..(l - 1) :
                             /\ L[m].e.call = L[k].e.call
                             /\ L[m].e.ev = IF L[l].e.call = L[k].e.call
                                            THEN "reconnect" ELSE "return"
       /\ (call.phase # "idle" /\ call.n > 1) =>
             \E m \in DOMAIN sent : sent[m].ev = "return" /\ sent[m].call = call.n - 1

\* two items of two steps each; the first item's read was retried after a
\* reconnect before the second item sent anything
C19_Witness ==
    /\ exec = "returned"
    /\ Len(items) = 2
    /\ items[1].name = "enableUser"
    /\ items[2].name = "resetPassword"
    /\ Cardinality(RequestsAt(0)) = 3
    /\ Cardinality(RequestsAt(1)) = 2
    /\ \E k \in DOMAIN Log : Log[k].item = 0 /\ Log[k].e.ev = "reconnect" /\ Log[k].e.ok
    /\ ~ItemFailed(0)
    /\ ~ItemFailed(1)

-----------------------------------------------------------------------------
(* C21, C24: the connections of one AdClient *)

\* the open connections of the instance that the model keeps count of: those of
\* replaced Client objects, and the bound one of this.client
OpenConnections == orphans + (IF conn = "bound" THEN 1 ELSE 0)

\* an unbind whose close raised and left its connection open
LeftOpen == \E i \in DOMAIN unbinds : unbinds[i].open

\* C21: at every point of a sequence of bind, primitive calls, reconnects and
\* unbind on one AdClient, at most one underlying connection of the instance
\* is open, also when the quiet tear-down of a reconnect fails.
C21_OneConnection == OpenConnections <= 1

\* what holds: while every close that raised still closed its connection, at
\* most one connection is open
C21_OneConnectionWhenClosed == ~LeftOpen => OpenConnections <= 1

\* a reconnect whose tear-down raised with the old connection open, followed
\* by a successful rebind of the new Client
C21_TwoOpen ==
    /\ orphans = 1
    /\ conn = "bound"
    /\ \E i \in DOMAIN unbinds : unbinds[i].by = "reconnect" /\ unbinds[i].open

\* C24: unbind never lets a failure out: whatever the underlying close raises,
\* on a session that is bound, was never bound or is already unbound,
\* AdClient.unbind returns normally; no error of a close fails a reconnect or
\* leaves execute.
C24_UnbindNeverThrows ==
    /\ \A i \in DOMAIN unbinds : unbinds[i].threw = NoErr
    /\ raised \notin CloseErrors
    /\ \A k \in DOMAIN Log : Log[k].e.err \notin CloseErrors
    /\ (exec = "returned" /\ unbinds # << >>) => unbinds[Len(unbinds)].by = "finally"

\* an item failed with continue-on-failure off: the unbind of the catch closed
\* the session, the close of the unbind in the finally raised on the session
\* already unbound, and the item's error is the one that left execute
C24_Witness ==
    /\ exec = "thrown"
    /\ Len(unbinds) = 2
    /\ unbinds[1].by = "catch"
    /\ unbinds[1].was = "bound"
    /\ unbinds[2].by = "finally"
    /\ unbinds[2].was = "unbound"
    /\ unbinds[2].err \in CloseErrors
    /\ ItemFailed(0)
    /\ raised = SettlementIn(Log, 0).err

\* the bind failed and the close of the unbind in the finally raised on a
\* session that was never bound
C24_NeverBound ==
    /\ exec = "thrown"
    /\ Len(unbinds) = 1
    /\ unbinds[1].was = "unbound"
    /\ unbinds[1].err \in CloseErrors
    /\ raised \in BindErrors

-----------------------------------------------------------------------------
(* C25: escapeDN, under SpecCodec *)

RECURSIVE DnTokens(_)
\* the characters of an escaped value: a backslash makes the next one literal
DnTokens(s) ==
    IF s = << >> THEN << >>
    ELSE IF Head(s) = "\\" /\ Len(s) >= 2
         THEN <<[ch |-> s[2], esc |-> TRUE]>> \o DnTokens(SubSeq(s, 3, Len(s)))
    ELSE <<[ch |-> Head(s), esc |-> FALSE]>> \o DnTokens(Tail(s))

BareSpace(t) == t.ch = " " /\ ~t.esc

RECURSIVE DropLeadingSpaces(_)
DropLeadingSpaces(ts) ==
    IF ts # << >> /\ BareSpace(Head(ts)) THEN DropLeadingSpaces(Tail(ts)) ELSE ts

RECURSIVE DropTrailingSpaces(_)
DropTrailingSpaces(ts) ==
    IF ts # << >> /\ BareSpace(ts[Len(ts)])
    THEN DropTrailingSpaces(SubSeq(ts, 1, Len(ts) - 1)) ELSE ts

\* the value an escaped attribute value denotes by the DN grammar
UnescapeDN(s) ==
    LET ts == DropTrailingSpaces(DropLeadingSpaces(DnTokens(s)))
    IN [i \in 1..Len(ts) |-> ts[i].ch]

RECURSIVE EachEscapedAtMostOnce(_, _)
\* out is s with each character left as it is or preceded by one backslash
EachEscapedAtMostOnce(s, out) ==
    IF s = << >> THEN out = << >>
    ELSE \/ /\ out # << >>
            /\ Head(out) = Head(s)
            /\ EachEscapedAtMostOnce(Tail(s), Tail(out))
         \/ /\ Len(out) >= 2
            /\ out[1] = "\\"
            /\ out[2] = Head(s)
            /\ EachEscapedAtMostOnce(Tail(s), SubSeq(out, 3, Len(out)))

Escaped == cOps = <<"escapeDN">>

\* C25: un-escaping what escapeDN returns by the DN grammar gives back the
\* string it was given, and no character of that string is escaped twice.
C25_EscapeRoundTrips ==
    Escaped =>
        /\ UnescapeDN(cOut[1]) = cIn.val
        /\ EachEscapedAtMostOnce(cIn.val, cOut[1])

\* the same for every string but the single space
C25_RoundTripsButSingleSpace ==
    (Escaped /\ cIn.val # <<" ">>) =>
        /\ UnescapeDN(cOut[1]) = cIn.val
        /\ EachEscapedAtMostOnce(cIn.val, cOut[1])

\* the single space comes back with two backslashes before it
C25_SingleSpace ==
    Escaped /\ cIn.val = <<" ">> /\ cOut[1] = <<"\\", "\\", " ">>

-----------------------------------------------------------------------------
(* C26: validateSAMAccountName, under SpecCodec *)

SamListed ==
    {" ", "\"", "/", "\\", "[", "]", ":", ";", "|", "=", ",", "+", "*", "?", "<", ">"}

SamChecked == cOps = <<"validateSAMAccountName">>

Contains(s, S) == \E i \in 1..Len(s) : s[i] \in S

\* C26 as stated: invalid exactly when the candidate is empty, longer than 20
\* characters or contains a listed character (of the whitespace, the space only).
C26_InvalidExactlyWhenListed ==
    SamChecked =>
        (cOut[1].valid <=>
            (Len(cIn.val) >= 1 /\ Len(cIn.val) <= 20 /\ ~Contains(cIn.val, SamListed)))

\* C26 amended: invalid exactly when the candidate is empty, longer than 20
\* characters, or contains a whitespace character of any kind or one of
\* " / \ [ ] : ; | = , + * ? < >; a message is given exactly when invalid.
C26_InvalidExactlyWhenListedOrWhitespace ==
    SamChecked =>
        /\ cOut[1].valid <=>
              (Len(cIn.val) >= 1 /\ Len(cIn.val) <= 20
               /\ ~Contains(cIn.val, SamListed \cup {"\t", "\n"}))
        /\ cOut[1].valid <=> (cOut[1].error = NoError)

\* a candidate within the length limit whose only fault is a tab
C26_TabRejected ==
    /\ SamChecked
    /\ Len(cIn.val) = 20
    /\ Contains(cIn.val, {"\t"})
    /\ ~Contains(cIn.val, SamListed)
    /\ ~cOut[1].valid

-----------------------------------------------------------------------------
(* C27: validateUPN, under SpecCodec *)

UpnChecked == cOps = <<"validateUPN">>

Count(s, c) == Cardinality({i \in 1..Len(s) : s[i] = c})

\* local@domain.tld: one @, not first; no whitespace anywhere; after the @ a
\* dot with a character between the two and a character after it
UpnShape(s) ==
    /\ Count(s, "@") = 1
    /\ ~Contains(s, {" ", "\t", "\n"})
    /\ LET at == CHOOSE i \in 1..Len(s) : s[i] = "@"
       IN /\ at > 1
          /\ \E j \in (at + 2)..(Len(s) - 1) : s[j] = "."

\* C27: validateUPN reports invalid every candidate that has not exactly one
\* @ or is not of the shape local@domain.tld with non-empty parts free of
\* whitespace, and reports valid every candidate of that shape.
C27_ValidExactlyWhenShaped ==
    UpnChecked =>
        /\ Count(cIn.val, "@") # 1 => ~cOut[1].valid
        /\ cOut[1].valid <=> UpnShape(cIn.val)
        /\ cOut[1].valid <=> (cOut[1].error = NoError)

\* a candidate with a second @ in its domain is rejected by the pattern
C27_Witness ==
    /\ UpnChecked
    /\ Count(cIn.val, "@") = 2
    /\ cIn.val[2] = "@"
    /\ cOut[1].error = "Invalid UPN format"

\* a candidate of the shape, with a dot in its domain, is accepted
C27_Accepted ==
    /\ UpnChecked
    /\ cIn.val = <<"a", "@", ".", "a", ".", "a">>
    /\ cOut[1].valid

-----------------------------------------------------------------------------
(* C28, C29: the groupType attribute, under SpecCodec *)

GroupCreated == cIn.kind = "group" /\ Len(cOps) >= 1

GroupRead == cIn.kind = "group" /\ Len(cOps) = 3

\* the category and the scope the group was created with
CategoryAsked == OptionOr(cIn.val[1], "security")

ScopeAsked == OptionOr(cIn.val[2], "global")

\* C28: the category and the scope decoded by getGroup and by listGroups from
\* the value createGroup sent, read back signed or unsigned, are those the
\* group was created with.
C28_GroupTypeRoundTrips ==
    GroupRead =>
        /\ cOut[3].groupType = CategoryAsked
        /\ cOut[3].scope = ScopeAsked

\* a universal security group read back by listGroups as an unsigned number
C28_Witness ==
    /\ GroupRead
    /\ cOps = <<"createGroup", "unsigned", "listGroups">>
    /\ cOut[1] = <<"-", "2", "1", "4", "7", "4", "8", "3", "6", "4", "0">>
    /\ cOut[2] = <<"2", "1", "4", "7", "4", "8", "3", "6", "5", "6">>
    /\ cOut[3] = [groupType |-> "security", scope |-> "universal"]

\* and by getGroup as the signed number that was sent
C28_SignedRead ==
    /\ GroupRead
    /\ cOps = <<"createGroup", "signed", "getGroup">>
    /\ cOut[2] = cOut[1]
    /\ cOut[3] = [groupType |-> "security", scope |-> "universal"]

\* the bits of a decimal number, positions 0..31, by halving
RECURSIVE BitsOfHalf(_, _)
BitsOfHalf(n, from) ==
    IF n = 0 THEN {}
    ELSE (IF n % 2 = 1 THEN {from} ELSE {}) \cup BitsOfHalf(n \div 2, from + 1)

BitsSent ==
    LET v == ParseInt32(cOut[1]) IN BitsOfHalf(v.lo, 0) \cup BitsOfHalf(v.hi, 16)

\* C29: the value createGroup sends has exactly one of the bits 1, 2, 3 (0x2
\* global, 0x4 domain-local, 0x8 universal), the one of its scope, bit 31
\* exactly when the group is a security group, and no other bit.
C29_GroupTypeBits ==
    GroupCreated =>
        BitsSent = {CASE ScopeAsked = "global" -> 1
                      [] ScopeAsked = "domainLocal" -> 2
                      [] ScopeAsked = "universal" -> 3}
                   \cup (IF CategoryAsked = "security" THEN {31} ELSE {})

\* a domain-local security group: 0x80000004 as the signed decimal
C29_Witness ==
    /\ cOps = <<"createGroup">>
    /\ cIn.kind = "group"
    /\ cIn.val = <<"security", "domainLocal">>
    /\ cOut[1] = <<"-", "2", "1", "4", "7", "4", "8", "3", "6", "4", "4">>

-----------------------------------------------------------------------------
(* C30: directory timestamps, under SpecCodec *)

\* an integer in decimal, exactly
Exactly(s) ==
    IF Head(s) = "-" THEN Num(TRUE, DigitsBits(Tail(s), << >>))
    ELSE Num(FALSE, DigitsBits(s, << >>))

\* |x - y| of two integers
Distance(x, y) ==
    IF x.neg # y.neg THEN AddB(x.m, y.m)
    ELSE IF LessB(x.m, y.m) THEN SubB(y.m, x.m)
    ELSE SubB(x.m, y.m)

\* the ticks (100 ns since 1601) of a decoded time
TicksOf(ms) ==
    LET t == Exactly(ms)
        e == DigitsBits(UnixEpochTicks, << >>)
        m == MulAdd(t.m, 10000, 0)
    IN IF ~t.neg THEN Num(FALSE, AddB(m, e))
       ELSE IF LessB(e, m) THEN Num(TRUE, SubB(m, e))
       ELSE Num(FALSE, SubB(e, m))

Unset(r) == r = Undefined \/ r = <<"0">> \/ r = MaxInt64

\* the decoded time is r / 10000 - 11644473600000 to the millisecond
DecodesRaw(r, out) ==
    /\ out \notin {Null, InvalidTime}
    /\ LessB(Distance(TicksOf(out), Exactly(r)), Small(10000))

Converted == cIn.kind = "raw" /\ cOps = <<"convertADTimestamp">>

NowConverted == cIn.kind = "instant" /\ cOps = <<"now", "convertADTimestamp">>

\* the encoding of the instant is below 2^57
Below57 == Width(DigitsBits(cOut[1], << >>)) <= 57

UnsetAndRaw ==
    Converted =>
        IF Unset(cIn.val) THEN cOut[1] = Null ELSE DecodesRaw(cIn.val, cOut[1])

C30_OneEarlier ==
    /\ NowConverted
    /\ cIn.val = <<"2", "7", "6", "7", "0", "4", "5", "2", "0", "7", "5", "8", "9">>
    /\ cOut[2] = <<"2", "7", "6", "7", "0", "4", "5", "2", "0", "7", "5", "8", "8">>

\* the unset values
C30_Unset ==
    /\ Converted
    /\ cIn.val = MaxInt64
    /\ cOut[1] = Null

-----------------------------------------------------------------------------
(* C31: the reconnect that fails, and the identity of the rebind *)

\* the reconnects of call n that failed
FailedReconnects(n) == {r \in Evs(n, "reconnect") : ~sent[r].ok}

\* the binds made by reconnect, in the bind history
Rebinds == {i \in DOMAIN binds : binds[i].by = "reconnect"}

\* C31: a call whose reconnect fails puts its request on the wire once only,
\* reconnects once only and throws the error of the failed rebind; every
\* rebind, successful or not, is made with the identity and the secret of the
\* first bind, so a session rebuilt by reconnect is bound as the original was.
C31_FailedReconnectEndsCall ==
    /\ \A n \in Calls : \A r \in FailedReconnects(n) :
          /\ Cardinality(Evs(n, "attempt")) = 1
          /\ Cardinality(Evs(n, "reconnect")) = 1
          /\ \A a \in Evs(n, "attempt") : a < r
          /\ Cardinality(Evs(n, "return")) = 1
          /\ \A t \in Evs(n, "return") :
                r < t /\ ~sent[t].ok /\ sent[t].err = sent[r].err
    /\ binds # << >> =>
          /\ binds[1].by = "execute"
          /\ \A i \in Rebinds : binds[i].as = binds[1].as
    /\ Cardinality(Rebinds) =
          Cardinality({i \in DOMAIN sent : sent[i].ev = "reconnect"})

\* a call whose rebind was rejected: the operation failed on the spot
C31_Witness ==
    /\ Failed
    /\ FailedReconnects(1) # {}
    /\ result.err \in BindErrors
    /\ conn = "unbound"

\* a rebind that succeeded for the second account, and the retry after it
C31_Rebound ==
    /\ Succeeded
    /\ config.bindDn # ServiceAccount.bindDn
    /\ \E i \in Rebinds : binds[i].ok /\ binds[i].as = <<config.bindDn, config.password>>
    /\ Cardinality(Evs(1, "attempt")) = 2

-----------------------------------------------------------------------------
(* C32: the session a request is sent on *)

\* the attempts of the batch so far that the directory itself answered, with
\* the state of the session each was sent on
AnsweredOn ==
    LET all == [k \in DOMAIN wire |-> wire[k].e] \o sent
    IN  {all[k].on : k \in {i \in DOMAIN all : all[i].ev = "attempt" /\ all[i].fault = 0}}

\* C32: every request the directory answers was sent on a session whose bind
\* completed and that has not been unbound since, for every item of a batch.
C32_RequestsOnBoundSession == AnsweredOn \subseteq {"bound"}

\* a later item of a continue-on-failure batch was answered on the session
\* that an earlier item's failed rebind had left without a bind
C32_AfterFailedRebind ==
    /\ continueOnFail
    /\ itemIndex >= 1
    /\ \E i \in DOMAIN binds : binds[i].by = "reconnect" /\ ~binds[i].ok
    /\ \E k \in DOMAIN sent :
          sent[k].ev = "attempt" /\ sent[k].fault = 0 /\ sent[k].on = "unbound"

\* as long as no rebind has failed, every request is sent on the bound session
C32_BoundUntilRebindFails ==
    (\A i \in DOMAIN binds : binds[i].ok) => AnsweredOn \subseteq {"bound"}

-----------------------------------------------------------------------------
(* C33: the session over one execute *)

\* the binds made by execute itself
ExecuteBinds == {i \in DOMAIN binds : binds[i].by = "execute"}

\* execute is over: it returned its records or let an exception out
Finished == exec \in {"returned", "thrown"}

\* an item has been taken up
ItemTaken == op.name # "none" \/ wire # << >> \/ sent # << >> \/ returnData # << >>

\* C33: execute binds once, before anything else; if that bind fails no item
\* is taken up and execute throws the bind's error, continue-on-failure or
\* not; every finished execute (returned, item failed, bind failed) has called
\* unbind, its last unbind is the one of the finally, and that unbind follows
\* every request put on the wire; an execute that throws for a failed item has
\* also called the unbind of the catch first.
C33_BatchLifecycle ==
    /\ Cardinality(ExecuteBinds) <= 1
    /\ exec # "bind" => ExecuteBinds = {1}
    /\ exec = "bind" => binds = << >> /\ ~ItemTaken /\ unbinds = << >>
    /\ ItemTaken => binds[1].ok
    /\ (exec # "bind" /\ ~binds[1].ok) =>
          /\ ~ItemTaken
          /\ itemIndex = 0
          /\ raised \in BindErrors
          /\ exec \in {"finally", "thrown"}
    /\ Finished =>
          /\ unbinds # << >>
          /\ unbinds[Len(unbinds)].by = "finally"
          /\ unbinds[Len(unbinds)].after = RequestsSoFar
          /\ call.phase = "idle"
          /\ Cardinality({i \in DOMAIN unbinds : unbinds[i].by = "finally"}) = 1
          /\ (exec = "thrown" /\ binds[1].ok) =>
                /\ Len(unbinds) >= 2
                /\ unbinds[Len(unbinds) - 1].by = "catch"
                /\ unbinds[Len(unbinds) - 1].after = RequestsSoFar
          /\ exec = "returned" =>
                \A i \in DOMAIN unbinds : unbinds[i].by \in {"reconnect", "finally"}

\* the bind of a continue-on-failure batch of two items was rejected: execute
\* threw after the unbind of its finally and sent nothing
C33_Witness ==
    /\ exec = "thrown"
    /\ continueOnFail
    /\ Len(items) = MaxItems
    /\ ~binds[1].ok
    /\ raised \in BindErrors
    /\ Len(unbinds) = 1
    /\ wire = << >>

\* a batch that returned after a reconnect: the unbind of the reconnect came
\* before the retry, the unbind of the finally after every request
C33_ReturnedAfterReconnect ==
    /\ exec = "returned"
    /\ Len(unbinds) = 2
    /\ unbinds[1].by = "reconnect"
    /\ unbinds[1].after < RequestsSoFar
    /\ unbinds[2].after = RequestsSoFar

-----------------------------------------------------------------------------
(* C34: enable and disable while another writer changes another bit *)

Toggles == op.name \in {"enableUser", "disableUser"}

\* the account-control value stored for the user of the operation
StoredUAC(d) == ParseInt(Attr(d[op.dn], "userAccountControl")).val

\* change i of the other writers was made after the operation's read returned
\* and before its write was put on the wire
BetweenReadAndWrite(i) ==
    /\ others[i].call = 2
    /\ \A k \in 1..others[i].at : ~(sent[k].ev = "attempt" /\ sent[k].call = 2)

\* the bit that change i gave its value is stored with that value
StillPresent(i) ==
    HasBit(StoredUAC(dir), others[i].bit)
        = HasBit(ParseInt(others[i].change.value).val, others[i].bit)

\* C34: when another writer changes another bit of the user's account control
\* between the read and the write of enableUser or disableUser, the bit has
\* the other writer's value after the write.
C34_OtherBitsSurviveInterleaving ==
    (Toggles /\ Succeeded) =>
        \A i \in DOMAIN others : BetweenReadAndWrite(i) => StillPresent(i)

\* the write of the toggle put back the value of the bit that it had read
C34_LostUpdate ==
    /\ op.name = "disableUser"
    /\ Succeeded
    /\ FaultFree
    /\ Len(others) = 1
    /\ BetweenReadAndWrite(1)
    /\ StoredUAC(dir0) = NORMAL_ACCOUNT
    /\ others[1].change.value = ToStr(NORMAL_ACCOUNT + DONT_EXPIRE_PASSWORD)
    /\ StoredUAC(dir) = NORMAL_ACCOUNT + ACCOUNTDISABLE

\* a change made before the read was answered is kept by the write
C34_SurvivesWhenBeforeRead ==
    (Toggles /\ Succeeded) =>
        \A i \in DOMAIN others : others[i].call = 1 => StillPresent(i)

-----------------------------------------------------------------------------
(* C35: add and remove member with the skip option, while another writer    *)
(* changes the membership                                                   *)

\* the operation failed on the directory's refusal to add a value that is
\* there, or to delete one that is not
RefusedAsSatisfied ==
    /\ Failed
    /\ result.err \in {AttributeOrValueExists, NoSuchAttribute}

\* C35: with the skip option on, add member never fails because the user is
\* already in the group and remove member never fails because the user is not
\* in it, whatever another writer does between the check and the modify.
C35_SkipNeverFailsOnSatisfied ==
    (op.name \in {"addGroupMember", "removeGroupMember"} /\ op.skip) => ~RefusedAsSatisfied

\* another writer added the user after the check had answered "not a member":
\* the modify was refused and add member failed, skipIfMember on
C35_AddedMeanwhile ==
    /\ op.name = "addGroupMember"
    /\ op.skip
    /\ faults = 0
    /\ ~InGroup(dir0, op)
    /\ Len(others) = 1
    /\ BetweenReadAndWrite(1)
    /\ others[1].change = AddValue("member", op.userDn)
    /\ Failed
    /\ result.err = AttributeOrValueExists

\* another writer removed the user after the check had answered "member":
\* the modify was refused and remove member failed, skipIfNotMember on
C35_RemovedMeanwhile ==
    /\ op.name = "removeGroupMember"
    /\ op.skip
    /\ faults = 0
    /\ InGroup(dir0, op)
    /\ Len(others) = 1
    /\ BetweenReadAndWrite(1)
    /\ Failed
    /\ result.err = NoSuchAttribute

\* with no other writer, no fault and a check that was answered, the skip
\* option keeps both operations from failing on a satisfied request
C35_SkipNeverFailsAlone ==
    (op.name \in {"addGroupMember", "removeGroupMember"} /\ op.skip
        /\ others = << >> /\ faults = 0)
    => ~RefusedAsSatisfied

-----------------------------------------------------------------------------
(* C36: what an error of add, deleteGroup, deleteOU says about the entry *)

\* the operation begins with an add or a del: createUser, deleteGroup, deleteOU
AddsOrDeletes == op.name \in {"createUser", "deleteGroup", "deleteOU"}

\* the first call of the operation, the add or the del, ended with an error
FirstCallThrew == call.n >= 1 /\ Evs(1, "attempt") # {} /\ Threw(1)

\* the entry at dn is in d2 as it is in d1
SameEntry(d1, d2, dn) ==
    /\ Exists(d1, dn) = Exists(d2, dn)
    /\ Exists(d1, dn) => d1[dn] = d2[dn]

IsTimeout(err) == MsgIncludes(err.msg, "timeout")

\* an attempt of call 1 was lost to a transport fault: the directory's answer
\* to it, if there was one, never arrived
Unanswered == \E i \in Evs(1, "attempt") : ~sent[i].ok /\ sent[i].err.kind = "transport"

\* the first attempt of call 1 timed out after the directory applied it
AppliedThenTimedOut ==
    /\ \E i \in Evs(1, "attempt") :
          sent[i].try = 1 /\ ~sent[i].ok /\ sent[i].fault = 1 /\ IsTimeout(sent[i].err)
    /\ \E r \in Serve(dir0, RequestOf(1)) : r.ok

\* C36 as claimed: whenever the add or the del ends with an error the entry at
\* its DN is as it was before the call.
C36_ErrorMeansNoEffect ==
    (AddsOrDeletes /\ FirstCallThrew) => SameEntry(dir0, dir, RequestOf(1).dn)

\* C36, amended: an add or del that ends with an error, every attempt of which
\* the directory answered, has left the entry as it was; when the first
\* attempt times out after the directory applied the request, the call
\* reconnects and retries, cannot succeed, and the entry stays changed.
C36_NoEffectWhenAnswered ==
    AddsOrDeletes =>
        /\ (FirstCallThrew /\ ~Unanswered) => SameEntry(dir0, dir, RequestOf(1).dn)
        /\ (call.n >= 1 /\ Evs(1, "attempt") # {} /\ AppliedThenTimedOut) =>
              /\ ~Returned(1)
              /\ Threw(1) => Cardinality(Evs(1, "reconnect")) = 1
              /\ ~SameEntry(dir0, dir, RequestOf(1).dn)
              /\ \A i \in Evs(1, "attempt") :
                    (sent[i].try = 2 /\ sent[i].fault = 0) =>
                        sent[i].err \in {EntryExists, NoSuchObject}

\* the directory refused to delete an organizational unit that has entries
\* below it: deleteOU failed and the unit is as it was
C36_Witness ==
    /\ op.name = "deleteOU"
    /\ FirstCallThrew
    /\ faults = 0
    /\ result.err = NotAllowedOnNonLeaf
    /\ SameEntry(dir0, dir, op.dn)
    /\ Exists(dir, op.dn)

\* the group was deleted by the attempt that timed out; the retry found no
\* such object and deleteGroup failed
C36_DeletedButFailed ==
    /\ op.name = "deleteGroup"
    /\ Failed
    /\ AppliedThenTimedOut
    /\ result.err = NoSuchObject
    /\ Exists(dir0, op.dn)
    /\ ~Exists(dir, op.dn)

\* the user was added by the attempt that timed out; the retry found the entry
\* and createUser failed
C36_AddedButFailed ==
    /\ op.name = "createUser"
    /\ Failed
    /\ AppliedThenTimedOut
    /\ result.err = EntryExists
    /\ Exists(dir, RequestOf(1).dn)

-----------------------------------------------------------------------------
(* C37 *)

ExpiryChecked == cIn.kind = "expiry" /\ cOps = <<"checkPasswordExpiry">>

\* the expiry and the now of the check, as the numbers the computation holds
ExpiryOf(x) ==
    Plus(ParseNumber(IF x.pwdLastSet = Undefined THEN <<"0">> ELSE x.pwdLastSet),
         Num(FALSE, DigitsBits(IF Head(x.maxPwdAge) = "-" THEN Tail(x.maxPwdAge) ELSE x.maxPwdAge, << >>)))

\* floor(a / 864000000000) of a natural number a, exactly
WholeDays(a) == DivSmall(DivSmall(DivSmall(a, 10000).q, 10000).q, 8640).q

\* the same policy stored with the other sign
OtherSign(maxPwdAge) ==
    IF Head(maxPwdAge) = "-" THEN Tail(maxPwdAge) ELSE <<"-">> \o maxPwdAge

C37_OneDayLeft ==
    /\ ExpiryChecked
    /\ cIn.maxPwdAge = <<"-">> \o OneDayAge
    /\ cIn.pwdLastSet = <<"1", "3", "4", "0", "6", "7", "7", "4", "4", "0", "0", "0", "0", "0",
                      "0", "0", "0", "0">>
    /\ cOut[1] = [expired |-> FALSE, daysUntilExpiry |-> <<"1">>]

C37_Expired ==
    /\ ExpiryChecked
    /\ cIn.pwdLastSet = Undefined
    /\ cOut[1] = [expired |-> TRUE, daysUntilExpiry |-> <<"0">>]

-----------------------------------------------------------------------------
(* C38 *)

DomainDerived == cIn.kind = "base" /\ cOps = <<"domainDn">>

\* the key of a component is what precedes its first "=" once the spaces
\* around the component are dropped; it is DC in either case of both letters
KeyIsDC(part) ==
    LET t == Trim(part)
    IN \E i \in 1..Len(t) :
          /\ t[i] = "="
          /\ \A m \in 1..(i - 1) : t[m] # "="
          /\ i = 3
          /\ t[1] \in {"D", "d"}
          /\ t[2] \in {"C", "c"}

RECURSIVE WithKeyDC(_)
WithKeyDC(parts) ==
    IF parts = << >> THEN << >>
    ELSE (IF KeyIsDC(Head(parts)) THEN <<Head(parts)>> ELSE << >>) \o WithKeyDC(Tail(parts))

\* C38: the domain root DN searched by checkPasswordExpiry is made of exactly
\* the comma-separated components of the configured base DN whose key is DC, in
\* either case and with the spaces around the component ignored, in their
\* order and as they were written, joined by commas.
C38_DomainRootDn ==
    DomainDerived => cOut[1] = Join(WithKeyDC(cIn.parts), ",")

\* the base DN OU=x,DC=a,DC=b gives DC=a,DC=b
C38_Witness ==
    /\ DomainDerived
    /\ cIn.val = <<"O", "U", "=", "x", ",", "D", "C", "=", "a", ",", "D", "C", "=", "b">>
    /\ cOut[1] = <<"D", "C", "=", "a", ",", "D", "C", "=", "b">>

\* components in lower case and with spaces around them are kept as written,
\* a value that holds DC= is not
C38_AsWritten ==
    /\ DomainDerived
    /\ cIn.parts = << <<" ", "D", "c", "=", "b", " ">>, <<"C", "N", "=", "D", "C", "=">>,
                      <<"d", "c", "=", "a">> >>
    /\ cOut[1] = <<" ", "D", "c", "=", "b", " ", ",", "d", "c", "=", "a">>

-----------------------------------------------------------------------------
(* C39 *)

Listing == op.name \in {"listUsers", "listGroups"}

\* the cap asked for: maxResults when it was given and is positive
Capped == Given(op, "maxResults") /\ op.maxResults > 0

ListedOk == Listing /\ pc = "done" /\ result.status = "ok"

\* the list returned
ListReturned == IF op.name = "listUsers" THEN result.json.users ELSE result.json.groups

\* C39: listUsers and listGroups send sizeLimit = maxResults with their search
\* when maxResults is a positive number and no size limit when it is 0 or left
\* out; under a cap the list returned has at most maxResults entries; and
\* every group listGroups returns has the group type and the scope asked for.
C39_ListingCap ==
    Listing =>
        /\ \A i \in 1..Len(sent) :
              sent[i].ev = "attempt" =>
                  /\ Capped => SizeLimitOf(sent[i].req) = op.maxResults
                  /\ ~Capped => "sizeLimit" \notin DOMAIN sent[i].req
        /\ (ListedOk /\ Capped) => Len(ListReturned) <= op.maxResults
        /\ (ListedOk /\ op.name = "listGroups") =>
              \A i \in 1..Len(result.json.groups) :
                  /\ op.groupType # "all" => result.json.groups[i].groupType = op.groupType
                  /\ op.scope # "all" => result.json.groups[i].scope = op.scope

\* three users match and a cap of two was asked for: two are returned
C39_Witness ==
    /\ ListedOk
    /\ op.name = "listUsers"
    /\ op.searchValue = << >>
    /\ Capped
    /\ op.maxResults = 2
    /\ dir = ListTree
    /\ Len(result.json.users) = 2

\* the universal security groups asked for with a cap of one: the search
\* brought the global group, and nothing is returned
C39_CapBeforeFilter ==
    /\ ListedOk
    /\ op.name = "listGroups"
    /\ op.groupType = "security"
    /\ op.scope = "universal"
    /\ Capped
    /\ op.maxResults = 1
    /\ dir = ListTree
    /\ result.json.groups = << >>

\* maxResults 0: no size limit is sent and everything is returned
C39_Unlimited ==
    /\ ListedOk
    /\ op.name = "listGroups"
    /\ Given(op, "maxResults")
    /\ op.maxResults = 0
    /\ op.searchFilter = << >>
    /\ op.groupType = "all"
    /\ op.scope = "all"
    /\ Len(result.json.groups) = 3

=============================================================================
